---- MODULE Spec2Model ----
(***************************************************************************)
(* A model of three command-line tools of brave-core-tools:                *)
(*   scripts/manage-bp-ids.py       the anchor-ID manager                  *)
(*   scripts/top-crashers.py        the crash reporter                     *)
(*   scripts/check-upstream-flake.py  the upstream-flake checker           *)
(* Each tool has its own variables, initial predicate, actions and         *)
(* specification; a specification leaves the other tools' variables alone. *)
(***************************************************************************)
EXTENDS Integers, Sequences, FiniteSets, TLC

VARIABLES
    \* ---- manage-bp-ids.py ----
    docs,         \* file name -> the file's lines (what read_text().splitlines() yields)
    cmd,          \* the last command run since the last manual edit
    rc,           \* its exit status
    errors,       \* cmd_validate's `errors` list
    total_added,  \* cmd_assign's `total_added`
    written,      \* the files the last command wrote (write_text)
    before,       \* history: `docs` as the last command found them
    new_ids,      \* history: the identifiers the last cmd_assign run created
    issued,       \* history: the identifiers earlier cmd_assign runs created
    runs,         \* history: cmd_assign runs since the last manual edit (capped)
    edits,        \* history: number of manual edits made
    \* ---- top-crashers.py: backtrace_query ----
    bq_pc,        \* "request", "backoff", "parse", "return" or "exit"
    bq_attempt,   \* the loop variable `attempt`
    bq_rc,        \* the exit status once bq_pc = "exit"
    bq_outcomes,  \* history: what each urlopen call ended in
    bq_waits,     \* history: the time.sleep() calls, in seconds
    \* ---- check-upstream-flake.py: search_tests over prpc_request ----
    fc_pc,        \* "search" (in the loop of search_tests), "searched" or "exit"
    fc_rc,        \* the exit status once fc_pc = "exit"
    all_test_ids, \* search_tests' `all_test_ids`
    page_token,   \* search_tests' `page_token`
    fc_requests,  \* history: the pageToken of each request body ("" when it has none)
    fc_outcomes,  \* history: what each urlopen call ended in
    fc_attempts,  \* history: the urlopen calls made for the last request
    \* ---- top-crashers.py: compare_windows ----
    cw_pc,        \* "call" before compare_windows runs, "done" after it
    recent,       \* the argument `recent`
    baseline,     \* the argument `baseline`
    annotated,    \* the list compare_windows returns
    \* ---- top-crashers.py: classify_crash_type ----
    ct_pc,       \* "call" before classify_crash_type runs, "done" after it
    classifier,  \* the argument `classifier`
    crash_type,  \* the string classify_crash_type returns
    \* ---- top-crashers.py: classify_code_origin ----
    frames,             \* the argument `frames` of the call
    brave_src_path,     \* the argument `brave_src_path` (None: no source tree)
    code_origin,        \* the string the call returned ("" before it)
    symbol_grep_cache,  \* `_symbol_grep_cache`: search name -> found
    co_searched,        \* history: the symbols the call gave to symbol_in_brave_src
    co_ran,             \* history: the call ran rg or grep
    \* ---- check-upstream-flake.py: main ----
    fc_days,  \* `args.days`
    \* ---- top-crashers.py: main ----
    tc_pc,       \* "off", "start", "dry_run", "setup", "recent", "baseline", "finish" or "exit"
    tc_rc,       \* the exit status once tc_pc = "exit"
    args,        \* the parsed command line and BACKTRACE_API_KEY, BACKTRACE_PROJECT
    now_ts,      \* `now_ts`, in milliseconds
    start_ts,    \* `start_ts`, in milliseconds
    days,        \* `days`
    crashers,    \* `crashers`
    tc_queries,  \* history: the query bodies build_query built
    tc_printed,  \* history: what went to standard output: "", "dry_run" or "report"
    tc_stderr,   \* history: the messages printed to standard error
    tc_caught,   \* history: the functions that caught an exception or skipped input
    tc_net,      \* history: the hosts main has sent a request to
    tc_calls,    \* history: the calls of backtrace_query begun
    \* ---- top-crashers.py: the four formatters ----
    fmt_crashers,  \* `crashers`, the list main hands to the formatter
    compare_mode,  \* `compare_mode`
    out_markdown,  \* what format_markdown shows of each group, None before the call
    out_json,      \* the entries format_json_output dumps, None before the call
    out_ndjson,    \* the entries format_ndjson dumps, None before the call
    out_csv,       \* the rows format_csv_output writes, None before the call
    \* ---- check-upstream-flake.py: the analysis of one test ----
    stats,      \* `stats`, what get_flakiness_stats returns for the test
    verdicts,   \* what get_test_verdicts returns for the test
    analysis,   \* `analysis`, None before the loop body has run
    fa_source,  \* history: "stats", "verdicts" or "none", the branch that built it
    \* ---- check-upstream-flake.py: format_report_json ----
    test_results,     \* `test_results`: the (test_id, analysis) pairs of main
    overall_verdict,  \* output["overall_verdict"], "" before the call
    \* ---- check-upstream-flake.py: the choice of the tests to analyse ----
    found_ids,  \* what search_tests returned
    test_ids,   \* `test_ids` after the sort and the cut, None before
    rk_done,    \* the sort and the cut have run
    \* ---- check-upstream-flake.py: main after the search ----
    run_test_ids,  \* `test_ids` after the sort and the cut
    fn_index,      \* the position of `test_id` in it, 0 before the loop
    all_groups,    \* `all_groups` of get_flakiness_stats
    all_verdicts,  \* `all_verdicts` of get_test_verdicts
    run_results,   \* `test_results`
    fn_printed,    \* history: the report printed: "", "not_found" or "report"
    \* ---- top-crashers.py: parse_response on its own ----
    pr_values,     \* response["response"]["values"]
    pr_min_count,  \* `min_count`
    pr_crashers,   \* the list parse_response returns
    pr_done,       \* parse_response has returned
    \* ---- top-crashers.py: build_channel_breakdown on its own ----
    version_hist,      \* `version_hist`: a dict, as the list of its items
    channel_versions,  \* what fetch_channel_versions returned
    cb_result,         \* what build_channel_breakdown returned, or that it raised
    cb_done,           \* build_channel_breakdown has ended
    \* ---- top-crashers.py: main from the parsed windows to the ranks ----
    fin_recent,    \* `crashers` as parse_response returned it
    fin_baseline,  \* `baseline_crashers`
    fin_args,      \* `args`
    fin_sorted,    \* history: `crashers` before the post-query filters
    fin_out,       \* `crashers` as the formatter is given it
    fin_done,      \* the ranks have been given
    \* ---- check-upstream-flake.py: the two analyses of the same data ----
    eq_groups,    \* the stat groups of QueryStats
    eq_verdicts,  \* the verdicts of Query
    by_stats,     \* None, or <<what analyze_stats returned>>
    by_verdicts,  \* None, or <<what analyze_verdicts returned>>
    \* ---- top-crashers.py: sanitize_frame ----
    sf_frame,  \* `frame`: whether it is a str, and its text or the text of str(frame)
    sf_out,    \* what sanitize_frame returned
    sf_done    \* sanitize_frame has returned

idVars == <<docs, cmd, rc, errors, total_added, written, before, new_ids, issued,
            runs, edits>>

bqVars == <<bq_pc, bq_attempt, bq_rc, bq_outcomes, bq_waits>>

fcVars == <<fc_pc, fc_rc, all_test_ids, page_token, fc_requests, fc_outcomes, fc_attempts>>

cwVars == <<cw_pc, recent, baseline, annotated>>

ctVars == <<ct_pc, classifier, crash_type>>

coVars == <<frames, brave_src_path, code_origin, symbol_grep_cache,
            co_searched, co_ran>>

fmVars == <<fc_days>>

tcVars == <<tc_pc, tc_rc, args, now_ts, start_ts, days, crashers, tc_queries,
            tc_printed, tc_stderr, tc_caught, tc_net, tc_calls>>

fmtVars == <<fmt_crashers, compare_mode, out_markdown, out_json, out_ndjson,
             out_csv>>

faVars == <<stats, verdicts, analysis, fa_source>>

repVars == <<test_results, overall_verdict>>

rkVars == <<found_ids, test_ids, rk_done>>

fnVars == <<run_test_ids, fn_index, all_groups, all_verdicts, run_results,
            fn_printed>>

prVars == <<pr_values, pr_min_count, pr_crashers, pr_done>>

cbVars == <<version_hist, channel_versions, cb_result, cb_done>>

finVars == <<fin_recent, fin_baseline, fin_args, fin_sorted, fin_out,
             fin_done>>

eqVars == <<eq_groups, eq_verdicts, by_stats, by_verdicts>>

sfVars == <<sf_frame, sf_out, sf_done>>

vars == <<idVars, bqVars, fcVars, cwVars, ctVars, coVars, fmVars, tcVars,
          fmtVars, faVars, repVars, rkVars, fnVars, prVars, cbVars, finVars,
          eqVars, sfVars>>

\* a step of one tool leaves the other tools' variables alone
IdsFrame == UNCHANGED <<bqVars, fcVars, cwVars, ctVars, coVars, fmVars,
                        tcVars, fmtVars, faVars, repVars, rkVars, fnVars,
                        prVars, cbVars, finVars, eqVars, sfVars>>

BqFrame == UNCHANGED <<idVars, fcVars, cwVars, ctVars, coVars, fmVars,
                       tcVars, fmtVars, faVars, repVars, rkVars, fnVars,
                       prVars, cbVars, finVars, eqVars, sfVars>>

FcFrame == UNCHANGED <<idVars, bqVars, cwVars, ctVars, coVars, fmVars,
                       tcVars, fmtVars, faVars, repVars, rkVars, fnVars,
                       prVars, cbVars, finVars, eqVars, sfVars>>

CwFrame == UNCHANGED <<idVars, bqVars, fcVars, ctVars, coVars, fmVars,
                       tcVars, fmtVars, faVars, repVars, rkVars, fnVars,
                       prVars, cbVars, finVars, eqVars, sfVars>>

CtFrame == UNCHANGED <<idVars, bqVars, fcVars, cwVars, coVars, fmVars,
                       tcVars, fmtVars, faVars, repVars, rkVars, fnVars,
                       prVars, cbVars, finVars, eqVars, sfVars>>

CoFrame == UNCHANGED <<idVars, bqVars, fcVars, cwVars, ctVars, fmVars,
                       tcVars, fmtVars, faVars, repVars, rkVars, fnVars,
                       prVars, cbVars, finVars, eqVars, sfVars>>

FmFrame == UNCHANGED <<idVars, bqVars, cwVars, ctVars, coVars, tcVars,
                       fmtVars, faVars, repVars, rkVars, fnVars, prVars,
                       cbVars, finVars, eqVars, sfVars>>

TcFrame == UNCHANGED <<idVars, fcVars, cwVars, ctVars, coVars, fmVars,
                       fmtVars, faVars, repVars, rkVars, fnVars, prVars,
                       cbVars, finVars, eqVars, sfVars>>

FmtFrame == UNCHANGED <<idVars, bqVars, fcVars, cwVars, ctVars, coVars,
                        fmVars, tcVars, faVars, repVars, rkVars, fnVars,
                        prVars, cbVars, finVars, eqVars, sfVars>>

FaFrame == UNCHANGED <<idVars, bqVars, fcVars, cwVars, ctVars, coVars,
                       fmVars, tcVars, fmtVars, repVars, rkVars, fnVars,
                       prVars, cbVars, finVars, eqVars, sfVars>>

RepFrame == UNCHANGED <<idVars, bqVars, fcVars, cwVars, ctVars, coVars,
                        fmVars, tcVars, fmtVars, faVars, rkVars, fnVars,
                        prVars, cbVars, finVars, eqVars, sfVars>>

RkFrame == UNCHANGED <<idVars, bqVars, fcVars, cwVars, ctVars, coVars,
                       fmVars, tcVars, fmtVars, faVars, repVars, fnVars,
                       prVars, cbVars, finVars, eqVars, sfVars>>

FnFrame == UNCHANGED <<idVars, bqVars, cwVars, ctVars, coVars, tcVars,
                       fmtVars, faVars, repVars, rkVars, prVars, cbVars,
                       finVars, eqVars, sfVars>>

PrFrame == UNCHANGED <<idVars, bqVars, fcVars, cwVars, ctVars, coVars,
                       fmVars, tcVars, fmtVars, faVars, repVars, rkVars,
                       fnVars, cbVars, finVars, eqVars, sfVars>>

CbFrame == UNCHANGED <<idVars, bqVars, fcVars, cwVars, ctVars, coVars,
                       fmVars, tcVars, fmtVars, faVars, repVars, rkVars,
                       fnVars, prVars, finVars, eqVars, sfVars>>

FinFrame == UNCHANGED <<idVars, bqVars, fcVars, cwVars, ctVars, coVars,
                        fmVars, tcVars, fmtVars, faVars, repVars, rkVars,
                        fnVars, prVars, cbVars, eqVars, sfVars>>

EqFrame == UNCHANGED <<idVars, bqVars, fcVars, cwVars, ctVars, coVars,
                       fmVars, tcVars, fmtVars, faVars, repVars, rkVars,
                       fnVars, prVars, cbVars, finVars, sfVars>>

SfFrame == UNCHANGED <<idVars, bqVars, fcVars, cwVars, ctVars, coVars,
                       fmVars, tcVars, fmtVars, faVars, repVars, rkVars,
                       fnVars, prVars, cbVars, finVars, eqVars>>

(***************************************************************************)
(* Bounds of the model.                                                    *)
(***************************************************************************)
MaxEdits == 4

\* the number of pages the test-history service serves for one search
MaxPages == 3

\* the number of crash groups in a window
MaxGroups == 2

(***************************************************************************)
(* Generic helpers.                                                        *)
(***************************************************************************)
Max(S) == CHOOSE x \in S : \A y \in S : y <= x

Min2(a, b) == IF a <= b THEN a ELSE b

Range(s) == {s[i] : i \in 1..Len(s)}

\* Python's None; an empty string is as falsy as None in `if eid:`
None == <<>>

(***************************************************************************)
(* Strings are sequences of one-character strings, so that prefix tests,   *)
(* int() and the {:03d} format are computed as the code computes them.     *)
(***************************************************************************)
Digit == <<"0", "1", "2", "3", "4", "5", "6", "7", "8", "9">>

IsDigit(c) == \E k \in 1..10 : Digit[k] = c

DigitVal(c) == (CHOOSE k \in 1..10 : Digit[k] = c) - 1

StartsWith(s, p) == Len(s) >= Len(p) /\ SubSeq(s, 1, Len(p)) = p

RECURSIVE DigitsValue(_, _)
DigitsValue(s, acc) ==
    IF s = <<>> THEN acc ELSE DigitsValue(Tail(s), 10 * acc + DigitVal(Head(s)))

\* int(s): the value, or a ValueError (ok = FALSE) for anything that is not
\* an optional sign followed by at least one digit
IntOf(s) ==
    LET signed == s # <<>> /\ Head(s) \in {"+", "-"}
        body   == IF signed THEN Tail(s) ELSE s
    IN  IF body # <<>> /\ \A i \in 1..Len(body) : IsDigit(body[i])
        THEN [ok  |-> TRUE,
              val |-> IF signed /\ Head(s) = "-" THEN 0 - DigitsValue(body, 0)
                      ELSE DigitsValue(body, 0)]
        ELSE [ok |-> FALSE, val |-> 0]

RECURSIVE DecimalOf(_)
DecimalOf(n) ==
    IF n < 10 THEN <<Digit[n + 1]>> ELSE Append(DecimalOf(n \div 10), Digit[(n % 10) + 1])

RECURSIVE PadLeft(_, _)
PadLeft(s, width) == IF Len(s) >= width THEN s ELSE PadLeft(<<"0">> \o s, width)

\* f"{n:03d}"
Format03d(n) == PadLeft(DecimalOf(n), 3)

(***************************************************************************)
(* manage-bp-ids.py                                                        *)
(*                                                                         *)
(* A line is classified the way the two regular expressions and the blank  *)
(* test classify it: k = "heading" when HEADING_RE matches (v is group 2,  *)
(* the heading text), k = "anchor" when ANCHOR_RE matches (v is group 1,   *)
(* the identifier), k = "blank" when line.strip() == "", and k = "text"    *)
(* for every other line. No line matches two of them.                      *)
(***************************************************************************)
Blank == [k |-> "blank", v |-> <<>>]

TextLine == [k |-> "text", v |-> <<>>]

Heading(text) == [k |-> "heading", v |-> text]

Anchor(id) == [k |-> "anchor", v |-> id]

HEADING_RE(line) == line.k = "heading"

ANCHOR_RE(line) == line.k = "anchor"

IsBlank(line) == line.k = "blank"

\* sorted(DOCS_DIR.glob("*.md")), by stem: "coding-standards-memory.md" sorts
\* before "coding-standards.md" ("-" < "."), and notes.md has no prefix mapping
DocFiles == <<"coding-standards-memory", "coding-standards", "notes">>

\* two of the seventeen entries; CS is a proper prefix of CSM
DOC_PREFIXES ==
    ("coding-standards" :> <<"C", "S">>) @@ ("coding-standards-memory" :> <<"C", "S", "M">>)

\* d[k] = v on a dict
DictPut(d, key, val) == [x \in (DOMAIN d) \cup {key} |-> IF x = key THEN val ELSE d[x]]

EmptyDict == [x \in {} |-> <<>>]

\* the backwards scan over blank lines: the index of the nearest non-blank
\* line before position i (i = Len + 1 scans from the end), 0 when there is none
PrevNonBlank(lines, i) ==
    LET S == {j \in 1..(i - 1) : ~IsBlank(lines[j])}
    IN  IF S = {} THEN 0 ELSE Max(S)

\* existing_id of the heading at line i
ExistingId(lines, i) ==
    LET j == PrevNonBlank(lines, i)
    IN  IF j >= 1 /\ ANCHOR_RE(lines[j]) THEN lines[j].v ELSE None

RECURSIVE ParseFrom(_, _)
ParseFrom(lines, i) ==
    IF i > Len(lines) THEN <<>>
    ELSE IF HEADING_RE(lines[i])
         THEN <<[i |-> i, heading |-> lines[i].v, eid |-> ExistingId(lines, i)]>>
              \o ParseFrom(lines, i + 1)
         ELSE ParseFrom(lines, i + 1)

\* the (line_index, heading_text, existing_id_or_None) triples, in line order
parse_doc(lines) == ParseFrom(lines, 1)

RECURSIVE CollectHeadings(_, _, _, _)
CollectHeadings(hs, n, md, all_ids) ==
    IF n > Len(hs) THEN all_ids
    ELSE CollectHeadings(hs, n + 1, md,
            IF hs[n].eid # None
            THEN DictPut(all_ids, hs[n].eid, <<md, hs[n].heading>>)
            ELSE all_ids)

RECURSIVE CollectDocs(_, _, _)
CollectDocs(d, k, all_ids) ==
    IF k > Len(DocFiles) THEN all_ids
    ELSE CollectDocs(d, k + 1,
            CollectHeadings(parse_doc(d[DocFiles[k]]), 1, DocFiles[k], all_ids))

\* {id: (file, heading_text)}
collect_all_ids(d) == CollectDocs(d, 1, EmptyDict)

(***************************************************************************)
(* cmd_validate                                                            *)
(***************************************************************************)
MissingError(md, h) ==
    [kind |-> "MISSING ID", file |-> md, line |-> h.i, heading |-> h.heading, eid |-> None]

DuplicateError(md, h, prev) ==
    [kind |-> "DUPLICATE ID", file |-> md, line |-> h.i, heading |-> h.heading, eid |-> h.eid]

RECURSIVE ValidateHeadings(_, _, _, _)
ValidateHeadings(hs, n, md, st) ==
    IF n > Len(hs) THEN st
    ELSE LET h == hs[n]
         IN  ValidateHeadings(hs, n + 1, md,
                IF h.eid = None
                THEN [st EXCEPT !.errors = Append(@, MissingError(md, h))]
                ELSE [errors  |-> IF h.eid \in DOMAIN st.all_ids
                                  THEN Append(st.errors,
                                              DuplicateError(md, h, st.all_ids[h.eid]))
                                  ELSE st.errors,
                      all_ids |-> DictPut(st.all_ids, h.eid, <<md, h.heading>>)])

\* mutant: the identifiers seen so far are forgotten at each new file
RECURSIVE ValidateDocs_PerFile(_, _, _)
ValidateDocs_PerFile(d, k, st) ==
    IF k > Len(DocFiles) THEN st
    ELSE ValidateDocs_PerFile(d, k + 1,
            ValidateHeadings(parse_doc(d[DocFiles[k]]), 1, DocFiles[k],
                             [st EXCEPT !.all_ids = EmptyDict]))

RECURSIVE ValidateDocs(_, _, _)
ValidateDocs(d, k, st) ==
    IF k > Len(DocFiles) THEN st
    ELSE ValidateDocs(d, k + 1,
            ValidateHeadings(parse_doc(d[DocFiles[k]]), 1, DocFiles[k], st))

cmd_validate(d) ==
    LET st == ValidateDocs(d, 1, [errors |-> <<>>, all_ids |-> EmptyDict])
    IN  [rc      |-> IF st.errors # <<>> THEN 1 ELSE 0,
         errors  |-> st.errors,
         written |-> {}]

(***************************************************************************)
(* cmd_assign                                                              *)
(***************************************************************************)
\* the highest existing sequence number of a prefix, 0 when there is none
HighestSeq(prefix, existing_ids) ==
    LET head == prefix \o <<"-">>
        seqs == {IntOf(SubSeq(eid, Len(head) + 1, Len(eid))).val :
                    eid \in {e \in DOMAIN existing_ids :
                                /\ StartsWith(e, head)
                                /\ IntOf(SubSeq(e, Len(head) + 1, Len(e))).ok}}
    IN  Max(seqs \cup {0})

\* mutant: only the line directly before the heading is looked at
HasAnchor_NoBlankSkip(new_lines) ==
    new_lines # <<>> /\ ANCHOR_RE(new_lines[Len(new_lines)])

\* mutant: every heading is given a new anchor
HasAnchor_Never(new_lines) == FALSE

\* has_anchor: the nearest non-blank line already written is an anchor tag
HasAnchor(new_lines) ==
    LET j == PrevNonBlank(new_lines, Len(new_lines) + 1)
    IN  j >= 1 /\ ANCHOR_RE(new_lines[j])

\* the lines put before a heading that has no anchor
AnchorBlock(new_lines, new_id) ==
    (IF new_lines # <<>> /\ ~IsBlank(new_lines[Len(new_lines)]) THEN <<Blank>> ELSE <<>>)
    \o <<Anchor(new_id), Blank>>

NewId(prefix, max_seq) == prefix \o <<"-">> \o Format03d(max_seq)

RECURSIVE AssignLines(_, _, _, _, _)
AssignLines(lines, i, md, prefix, st) ==
    IF i > Len(lines) THEN st
    ELSE IF HEADING_RE(lines[i]) /\ ~HasAnchor(st.new_lines)
         THEN LET max_seq == st.max_seq + 1
                  new_id  == NewId(prefix, max_seq)
              IN  AssignLines(lines, i + 1, md, prefix,
                     [new_lines    |-> (st.new_lines \o AnchorBlock(st.new_lines, new_id))
                                       \o <<lines[i]>>,
                      max_seq      |-> max_seq,
                      existing_ids |-> DictPut(st.existing_ids, new_id, <<md, lines[i].v>>),
                      added        |-> st.added + 1,
                      new_ids      |-> st.new_ids \cup {new_id}])
         ELSE AssignLines(lines, i + 1, md, prefix,
                 [st EXCEPT !.new_lines = Append(@, lines[i])])

RECURSIVE AssignDocs(_, _)
AssignDocs(k, st) ==
    IF k > Len(DocFiles) THEN st
    ELSE LET md == DocFiles[k]
         IN  IF md \notin DOMAIN DOC_PREFIXES
             THEN AssignDocs(k + 1, st)
             ELSE LET prefix == DOC_PREFIXES[md]
                      r == AssignLines(st.docs[md], 1, md, prefix,
                              [new_lines    |-> <<>>,
                               max_seq      |-> HighestSeq(prefix, st.existing_ids),
                               existing_ids |-> st.existing_ids,
                               added        |-> 0,
                               new_ids      |-> {}])
                  IN  AssignDocs(k + 1,
                         IF r.added > 0
                         THEN [docs         |-> [st.docs EXCEPT ![md] = r.new_lines],
                               existing_ids |-> r.existing_ids,
                               total_added  |-> st.total_added + r.added,
                               written      |-> st.written \cup {md},
                               new_ids      |-> st.new_ids \cup r.new_ids]
                         ELSE st)

cmd_assign(d) ==
    LET st == AssignDocs(1, [docs         |-> d,
                             existing_ids |-> collect_all_ids(d),
                             total_added  |-> 0,
                             written      |-> {},
                             new_ids      |-> {}])
    IN  [rc          |-> 0,
         docs        |-> st.docs,
         total_added |-> st.total_added,
         written     |-> st.written,
         new_ids     |-> st.new_ids]

(***************************************************************************)
(* The anchor-ID manager as a state machine: the documents are edited by   *)
(* hand (lines appended, a heading deleted together with its anchor) and   *)
(* the two commands are run, each to completion, in any order.             *)
(***************************************************************************)
HeadingTexts == {<<"R", "u", "l", "e">>}

\* identifiers written by hand
ManualIds == {<<"C", "S", "-", "0", "0", "2">>}

ManualLines ==
    {Heading(t) : t \in HeadingTexts} \cup {Anchor(id) : id \in ManualIds}
        \cup {TextLine, Blank}

DocSet == Range(DocFiles)

RemoveLines(lines, from, to) == SubSeq(lines, 1, from - 1) \o SubSeq(lines, to + 1, Len(lines))

\* The documents as checked in: coding-standards.md holds one rule, which an
\* earlier --assign run gave the first identifier of its prefix.
FirstId == NewId(DOC_PREFIXES["coding-standards"], 1)

InitialDocs ==
    [md \in DocSet |->
        IF md = "coding-standards"
        THEN <<Anchor(FirstId), Blank, Heading(<<"R", "u", "l", "e">>)>>
        ELSE <<>>]

IdsInit ==
    /\ docs = InitialDocs
    /\ cmd = "none"
    /\ rc = 0
    /\ errors = <<>>
    /\ total_added = 0
    /\ written = {}
    /\ before = docs
    /\ new_ids = {}
    /\ issued = {FirstId}
    /\ runs = 0
    /\ edits = 0

\* what a manual edit leaves of the last command's results
AfterEdit ==
    /\ cmd' = "none"
    /\ rc' = 0
    /\ errors' = <<>>
    /\ total_added' = 0
    /\ written' = {}
    /\ before' = docs'
    /\ issued' = issued \cup new_ids
    /\ new_ids' = {}
    /\ runs' = 0
    /\ edits' = edits + 1

\* a line is appended to a document by hand
EditAppend(md, line) ==
    /\ edits < MaxEdits
    /\ docs' = [docs EXCEPT ![md] = Append(@, line)]
    /\ AfterEdit
    /\ IdsFrame

\* a heading is deleted by hand, together with its anchor when it has one
EditDelete(md, i) ==
    /\ edits < MaxEdits
    /\ HEADING_RE(docs[md][i])
    /\ docs' = [docs EXCEPT ![md] =
                   RemoveLines(@, IF ExistingId(@, i) # None THEN PrevNonBlank(@, i) ELSE i, i)]
    /\ AfterEdit
    /\ IdsFrame

\* manage-bp-ids.py --assign
Assign ==
    LET r == cmd_assign(docs)
    IN  /\ docs' = r.docs
        /\ cmd' = "assign"
        /\ rc' = r.rc
        /\ errors' = <<>>
        /\ total_added' = r.total_added
        /\ written' = r.written
        /\ before' = docs
        /\ issued' = issued \cup new_ids
        /\ new_ids' = r.new_ids
        /\ runs' = IF runs < 2 THEN runs + 1 ELSE runs
        /\ UNCHANGED edits
        /\ IdsFrame

\* manage-bp-ids.py --validate
Validate ==
    LET r == cmd_validate(docs)
    IN  /\ cmd' = "validate"
        /\ rc' = r.rc
        /\ errors' = r.errors
        /\ total_added' = 0
        /\ written' = r.written
        /\ before' = docs
        /\ issued' = issued \cup new_ids
        /\ new_ids' = {}
        /\ UNCHANGED <<docs, runs, edits>>
        /\ IdsFrame

IdsNext ==
    \/ \E md \in DocSet, line \in ManualLines : EditAppend(md, line)
    \/ \E md \in DocSet : \E i \in 1..Len(docs[md]) : EditDelete(md, i)
    \/ Assign
    \/ Validate

(***************************************************************************)
(* top-crashers.py: backtrace_query, one call. Each urlopen() ends in a    *)
(* response, an HTTPError with a status code, a URLError or a              *)
(* TimeoutError, as the service and the network decide.                    *)
(***************************************************************************)
MAX_RETRIES == 2

RETRY_BACKOFF == <<1, 3>>

HttpCodes == {400, 401, 403, 404, 429, 500, 503}

Outcomes ==
    {[kind |-> "ok", code |-> 200], [kind |-> "urlerror", code |-> 0],
     [kind |-> "timeout", code |-> 0]}
        \cup {[kind |-> "http", code |-> c] : c \in HttpCodes}

\* mutant: 403 is not seen as a credential problem
IsAuthFailure_Only401(code) == code = 401

\* e.code == 401 or e.code == 403
IsAuthFailure(code) == code = 401 \/ code = 403

\* mutant: every 4xx and 5xx status is retried
IsRetryableStatus_Any(code) == code >= 400

\* e.code == 429 or e.code >= 500
IsRetryableStatus(code) == code = 429 \/ code >= 500

\* mutant: the backoff table is indexed by the attempt, not by the retry
BackoffWait_ByAttempt(attempt) ==
    RETRY_BACKOFF[Min2(attempt, Len(RETRY_BACKOFF) - 1) + 1]

\* RETRY_BACKOFF[min(attempt - 1, len(RETRY_BACKOFF) - 1)], a 0-based index
BackoffWait(attempt) ==
    RETRY_BACKOFF[Min2(attempt - 1, Len(RETRY_BACKOFF) - 1) + 1]

BqInit ==
    /\ bq_pc = "request"
    /\ bq_attempt = 0
    /\ bq_rc = 0
    /\ bq_outcomes = <<>>
    /\ bq_waits = <<>>

BqExit(status) == bq_pc' = "exit" /\ bq_rc' = status /\ UNCHANGED bq_attempt

\* `continue`: the next value of range(1 + MAX_RETRIES), or the loop's
\* else branch (sys.exit(2)) when the range is used up
BqContinue ==
    IF bq_attempt + 1 < 1 + MAX_RETRIES
    THEN bq_pc' = "backoff" /\ bq_attempt' = bq_attempt + 1 /\ UNCHANGED bq_rc
    ELSE BqExit(2)

\* the try block of one loop iteration and its except clauses
BqRequest(o) ==
    /\ bq_pc = "request"
    /\ bq_outcomes' = Append(bq_outcomes, o)
    /\ UNCHANGED bq_waits
    /\ BqFrame
    /\ IF o.kind = "ok"
       THEN bq_pc' = "parse" /\ UNCHANGED <<bq_attempt, bq_rc>>
       ELSE IF o.kind = "http"
            THEN IF IsAuthFailure(o.code)
                 THEN BqExit(1)
                 ELSE IF IsRetryableStatus(o.code) /\ bq_attempt < MAX_RETRIES
                      THEN BqContinue
                      ELSE BqExit(2)
            ELSE IF bq_attempt < MAX_RETRIES THEN BqContinue ELSE BqExit(2)

\* the head of a later loop iteration: time.sleep(wait)
BqBackoff ==
    /\ bq_pc = "backoff"
    /\ bq_attempt > 0
    /\ bq_waits' = Append(bq_waits, BackoffWait(bq_attempt))
    /\ bq_pc' = "request"
    /\ UNCHANGED <<bq_attempt, bq_rc, bq_outcomes>>
    /\ BqFrame

\* json.loads(raw): the parsed response is returned, or sys.exit(2)
BqParse(valid_json) ==
    /\ bq_pc = "parse"
    /\ IF valid_json
       THEN bq_pc' = "return" /\ UNCHANGED <<bq_attempt, bq_rc>>
       ELSE BqExit(2)
    /\ UNCHANGED <<bq_outcomes, bq_waits>>
    /\ BqFrame

BqNext ==
    \/ \E o \in Outcomes : BqRequest(o)
    \/ BqBackoff
    \/ \E valid_json \in BOOLEAN : BqParse(valid_json)

(***************************************************************************)
(* check-upstream-flake.py: search_tests, whose every loop iteration makes *)
(* one prpc_request("QueryTests", body). A response body is its lines: the *)
(* XSSI prefix line when the service sends it, then the payload, which is  *)
(* a JSON document or not.                                                 *)
(***************************************************************************)
TestIds == {<<"a", "/", "T">>, <<"T">>}

\* a continuation token; "" is also what result.get("nextPageToken") is
\* taken for when the key is missing (None): both are falsy
Tokens == {"", "p"}

QueryTestsResults ==
    [testIds : {<<>>} \cup {<<t>> : t \in TestIds}, nextPageToken : Tokens]

XssiLine == [t |-> "xssi", doc |-> [testIds |-> <<>>, nextPageToken |-> ""]]

JsonLine(result) == [t |-> "json", doc |-> result]

GarbageLine == [t |-> "garbage", doc |-> [testIds |-> <<>>, nextPageToken |-> ""]]

Bodies ==
    {<<XssiLine, JsonLine(r)>> : r \in QueryTestsResults}
        \cup {<<JsonLine(r)>> : r \in QueryTestsResults}
        \cup {<<XssiLine, GarbageLine>>, <<XssiLine>>}

FcOutcomes ==
    {[kind |-> "ok", code |-> 200, raw |-> b] : b \in Bodies}
        \cup {[kind |-> k, code |-> 0, raw |-> <<>>] : k \in {"urlerror", "timeout"}}
        \cup {[kind |-> "http", code |-> c, raw |-> <<>>] : c \in HttpCodes}

\* raw[newline_idx + 1:] when raw holds a newline, raw itself otherwise
StripXssi(raw) == IF Len(raw) >= 2 THEN Tail(raw) ELSE raw

\* json.loads(raw): a JSONDecodeError unless raw is one JSON document
JsonLoads(raw) ==
    IF Len(raw) = 1 /\ raw[1].t = "json"
    THEN [ok |-> TRUE, doc |-> raw[1].doc]
    ELSE [ok |-> FALSE, doc |-> [testIds |-> <<>>, nextPageToken |-> ""]]

\* mutant: the continuation token of a response is not read
NextPageToken_None(result) == ""

\* result.get("nextPageToken")
NextPageToken(result) == result.nextPageToken

\* mutant: a network error or a server error is answered with an empty result
prpc_request_Swallow(o) ==
    IF o.kind = "ok" /\ JsonLoads(StripXssi(o.raw)).ok
    THEN [exit |-> FALSE, rc |-> 0, result |-> JsonLoads(StripXssi(o.raw)).doc]
    ELSE IF o.kind = "urlerror" \/ (o.kind = "http" /\ o.code >= 500)
         THEN [exit |-> FALSE, rc |-> 0, result |-> [testIds |-> <<>>, nextPageToken |-> ""]]
         ELSE [exit |-> TRUE, rc |-> 1, result |-> [testIds |-> <<>>, nextPageToken |-> ""]]

\* prpc_request: the parsed response, or the end of the process. Every
\* HTTPError, a URLError and a JSONDecodeError end in sys.exit(1); a
\* TimeoutError raised while the body is read is caught nowhere, and an
\* uncaught exception ends the interpreter with status 1 as well.
prpc_request(o) ==
    IF o.kind = "ok" /\ JsonLoads(StripXssi(o.raw)).ok
    THEN [exit |-> FALSE, rc |-> 0, result |-> JsonLoads(StripXssi(o.raw)).doc]
    ELSE [exit |-> TRUE, rc |-> 1, result |-> [testIds |-> <<>>, nextPageToken |-> ""]]

FcInit ==
    /\ fc_pc = "search"
    /\ fc_rc = 0
    /\ all_test_ids = <<>>
    /\ page_token = ""
    /\ fc_requests = <<>>
    /\ fc_outcomes = <<>>
    /\ fc_attempts = 0

\* one iteration of the loop of search_tests; the service serves at most
\* MaxPages pages, the last of them without a continuation token
QueryTests(o) ==
    /\ fc_pc = "search"
    /\ (o.kind = "ok" /\ Len(fc_requests) + 1 >= MaxPages /\ JsonLoads(StripXssi(o.raw)).ok)
            => JsonLoads(StripXssi(o.raw)).doc.nextPageToken = ""
    /\ fc_requests' = Append(fc_requests, page_token)
    /\ fc_outcomes' = Append(fc_outcomes, o)
    /\ fc_attempts' = 1
    /\ LET r == prpc_request(o)
       IN  IF r.exit
           THEN /\ fc_pc' = "exit"
                /\ fc_rc' = r.rc
                /\ UNCHANGED <<all_test_ids, page_token>>
           ELSE /\ all_test_ids' = all_test_ids \o r.result.testIds
                /\ page_token' = NextPageToken(r.result)
                /\ fc_pc' = IF NextPageToken(r.result) = "" THEN "searched" ELSE "search"
                /\ UNCHANGED fc_rc
    /\ FcFrame

FcNext == \E o \in FcOutcomes : QueryTests(o)

(***************************************************************************)
(* top-crashers.py: compare_windows. A crash group is its fingerprint and  *)
(* its count; a change factor is a number of tenths (what round(x, 1)      *)
(* leaves) or float("inf").                                                *)
(***************************************************************************)
Fingerprints == {"f1", "f2", "f3"}

RecentCounts == {1, 2, 5, 6, 20}

BaselineCounts == {0, 1, 2, 4, 5}

\* the lists of at most MaxGroups groups with pairwise distinct fingerprints
Windows(counts) ==
    UNION {{w \in [1..n -> [fingerprint : Fingerprints, count : counts]] :
                \A i, j \in 1..n : w[i].fingerprint = w[j].fingerprint => i = j} :
              n \in 0..MaxGroups}

Infinity == [inf |-> TRUE, tenths |-> 0]

\* round(c / b, 1) in tenths. A quotient that lies halfway between two
\* tenths is an odd multiple of 1/4 here (the baseline counts are 1, 2, 4
\* and 5), which a float holds exactly, and round() takes such a tie to the
\* even digit.
RoundTenths(c, b) ==
    LET q == (10 * c) \div b
        r == (10 * c) % b
    IN  IF 2 * r < b THEN q
        ELSE IF 2 * r > b THEN q + 1
        ELSE IF q % 2 = 0 THEN q ELSE q + 1

RECURSIVE BaselineByFp(_, _, _)
BaselineByFp(bl, n, by_fp) ==
    IF n > Len(bl) THEN by_fp
    ELSE BaselineByFp(bl, n + 1, DictPut(by_fp, bl[n].fingerprint, bl[n]))

\* Annotate with a group at exactly twice its baseline count taken as RISING
Annotate_AtLeastTwice(c, baseline_by_fp) ==
    IF c.fingerprint \in DOMAIN baseline_by_fp
    THEN LET base_count == baseline_by_fp[c.fingerprint].count
         IN  [regression_badge |-> IF base_count = 0 \/ c.count >= 2 * base_count
                                   THEN "RISING"
                                   ELSE IF 2 * c.count < base_count THEN "FALLING"
                                   ELSE "STABLE",
              change_factor    |-> IF base_count > 0
                                   THEN [inf |-> FALSE,
                                         tenths |-> RoundTenths(c.count, base_count)]
                                   ELSE Infinity,
              baseline_count   |-> base_count,
              rank             |-> 0] @@ c
    ELSE [regression_badge |-> "NEW",
          change_factor    |-> Infinity,
          baseline_count   |-> 0,
          rank             |-> 0] @@ c

\* the badge, change factor and baseline count one recent group is given;
\* the dict is annotated in place, so its other fields stay as they are
Annotate(c, baseline_by_fp) ==
    IF c.fingerprint \in DOMAIN baseline_by_fp
    THEN LET base_count == baseline_by_fp[c.fingerprint].count
             factor == IF base_count > 0
                       THEN [inf |-> FALSE, tenths |-> RoundTenths(c.count, base_count)]
                       ELSE Infinity
         IN  \* change_factor > 2.0, change_factor < 0.5 on the unrounded quotient
             [regression_badge |-> IF base_count = 0 \/ c.count > 2 * base_count
                                   THEN "RISING"
                                   ELSE IF 2 * c.count < base_count THEN "FALLING"
                                   ELSE "STABLE",
              change_factor    |-> factor,
              baseline_count   |-> base_count,
              rank             |-> 0] @@ c
    ELSE [regression_badge |-> "NEW",
          change_factor    |-> Infinity,
          baseline_count   |-> 0,
          rank             |-> 0] @@ c

badge_priority == ("NEW" :> 0) @@ ("RISING" :> 1) @@ ("STABLE" :> 2) @@ ("FALLING" :> 3)

\* the sort key (badge_priority.get(badge, 99), -count)
SortKey(c) ==
    <<IF c.regression_badge \in DOMAIN badge_priority
      THEN badge_priority[c.regression_badge] ELSE 99,
      0 - c.count>>

KeyLess(a, b) == a[1] < b[1] \/ (a[1] = b[1] /\ a[2] < b[2])

\* list.sort is stable: x goes behind every element whose key is not greater
RECURSIVE InsertByKey(_, _)
InsertByKey(x, sorted) ==
    IF sorted = <<>> THEN <<x>>
    ELSE IF KeyLess(SortKey(x), SortKey(Head(sorted)))
         THEN <<x>> \o sorted
         ELSE <<Head(sorted)>> \o InsertByKey(x, Tail(sorted))

RECURSIVE SortByKey(_, _)
SortByKey(list, sorted) ==
    IF list = <<>> THEN sorted ELSE SortByKey(Tail(list), InsertByKey(Head(list), sorted))

compare_windows(rec, bl) ==
    LET baseline_by_fp == BaselineByFp(bl, 1, EmptyDict)
        ann    == [n \in 1..Len(rec) |-> Annotate(rec[n], baseline_by_fp)]
        sorted == SortByKey(ann, <<>>)
    IN  [n \in 1..Len(sorted) |-> [sorted[n] EXCEPT !.rank = n]]

CwInit ==
    /\ cw_pc = "call"
    /\ recent \in Windows(RecentCounts)
    /\ baseline \in Windows(BaselineCounts)
    /\ annotated = <<>>

CompareWindows ==
    /\ cw_pc = "call"
    /\ annotated' = compare_windows(recent, baseline)
    /\ cw_pc' = "done"
    /\ UNCHANGED <<recent, baseline>>
    /\ CwFrame

CwNext == CompareWindows

\* the other tools start as they are; the windows are the inputs of one call
CwStart ==
    /\ cw_pc = "call"
    /\ recent = <<>>
    /\ baseline = <<>>
    /\ annotated = <<>>

(***************************************************************************)
(* top-crashers.py: classify_crash_type. A classifier is a string, or      *)
(* None (the empty sequence: `if classifier` takes both the same way).     *)
(***************************************************************************)
UpperLetters == <<"A", "B", "C", "D", "E", "F", "G", "H", "I", "J", "K", "L", "M",
                  "N", "O", "P", "Q", "R", "S", "T", "U", "V", "W", "X", "Y", "Z">>

LowerLetters == <<"a", "b", "c", "d", "e", "f", "g", "h", "i", "j", "k", "l", "m",
                  "n", "o", "p", "q", "r", "s", "t", "u", "v", "w", "x", "y", "z">>

\* the lower-case letter of every upper-case letter
ToLower ==
    [c \in Range(UpperLetters) |->
        LowerLetters[CHOOSE k \in 1..Len(UpperLetters) : UpperLetters[k] = c]]

LowerChar(c) == IF c \in DOMAIN ToLower THEN ToLower[c] ELSE c

\* str.lower()
Lower(s) == [i \in 1..Len(s) |-> LowerChar(s[i])]

\* the longest classifier drawn
MaxClassifierLen == 4

ClassifierChars == {"d", "u", "m", "p", "D"}

Classifiers == UNION {[1..n -> ClassifierChars] : n \in 0..MaxClassifierLen}

\* mutant: the classifier is compared as it is written
classify_crash_type_Exact(c) ==
    IF c # None /\ c = <<"d", "u", "m", "p">> THEN "dump" ELSE "crash"

\* classifier and classifier.lower() == "dump"
classify_crash_type(c) ==
    IF c # None /\ Lower(c) = <<"d", "u", "m", "p">> THEN "dump" ELSE "crash"

CtStart ==
    /\ ct_pc = "call"
    /\ classifier = None
    /\ crash_type = None

CtInit ==
    /\ ct_pc = "call"
    /\ classifier \in Classifiers
    /\ crash_type = None

ClassifyCrashType ==
    /\ ct_pc = "call"
    /\ crash_type' = classify_crash_type(classifier)
    /\ ct_pc' = "done"
    /\ UNCHANGED classifier
    /\ CtFrame

CtNext == ClassifyCrashType

(***************************************************************************)
(* top-crashers.py: is_brave_frame, symbol_in_brave_src and                *)
(* classify_code_origin. A frame is a string; every pattern of             *)
(* BRAVE_CODE_PATTERNS is \b, a literal and at most one character class,   *)
(* compiled with re.IGNORECASE.                                            *)
(***************************************************************************)
BRAVE_CODE_PATTERNS ==
    <<
     \* \bbrave[:_]
     [class |-> {":", "_"}, literal |-> <<"b", "r", "a", "v", "e">>],
     \* \bntp_background_images::
     [class |-> {}, literal |-> <<"n", "t", "p", "_", "b", "a", "c", "k",
         "g", "r", "o", "u", "n", "d", "_", "i", "m", "a", "g", "e", "s", ":",
         ":">>],
     \* \bbrave_ads::
     [class |-> {}, literal |-> <<"b", "r", "a", "v", "e", "_", "a", "d",
         "s", ":", ":">>],
     \* \bbrave_new_tab_page
     [class |-> {}, literal |-> <<"b", "r", "a", "v", "e", "_", "n", "e",
         "w", "_", "t", "a", "b", "_", "p", "a", "g", "e">>],
     \* \bbrave_wallet::
     [class |-> {}, literal |-> <<"b", "r", "a", "v", "e", "_", "w", "a",
         "l", "l", "e", "t", ":", ":">>],
     \* \bbrave_rewards::
     [class |-> {}, literal |-> <<"b", "r", "a", "v", "e", "_", "r", "e",
         "w", "a", "r", "d", "s", ":", ":">>],
     \* \bbrave_shields::
     [class |-> {}, literal |-> <<"b", "r", "a", "v", "e", "_", "s", "h",
         "i", "e", "l", "d", "s", ":", ":">>],
     \* \bmisc_metrics::
     [class |-> {}, literal |-> <<"m", "i", "s", "c", "_", "m", "e", "t",
         "r", "i", "c", "s", ":", ":">>],
     \* \bBraveProfile
     [class |-> {}, literal |-> <<"b", "r", "a", "v", "e", "p", "r", "o",
         "f", "i", "l", "e">>],
     \* \bBraveBrowser
     [class |-> {}, literal |-> <<"b", "r", "a", "v", "e", "b", "r", "o",
         "w", "s", "e", "r">>],
     \* \bspeedreader::
     [class |-> {}, literal |-> <<"s", "p", "e", "e", "d", "r", "e", "a",
         "d", "e", "r", ":", ":">>],
     \* \bipfs::
     [class |-> {}, literal |-> <<"i", "p", "f", "s", ":", ":">>],
     \* \btor::
     [class |-> {}, literal |-> <<"t", "o", "r", ":", ":">>],
     \* \bai_chat::
     [class |-> {}, literal |-> <<"a", "i", "_", "c", "h", "a", "t", ":",
         ":">>],
     \* \bskus::
     [class |-> {}, literal |-> <<"s", "k", "u", "s", ":", ":">>],
     \* \bplaylist::
     [class |-> {}, literal |-> <<"p", "l", "a", "y", "l", "i", "s", "t",
         ":", ":">>],
     \* \bdecentralized_dns::
     [class |-> {}, literal |-> <<"d", "e", "c", "e", "n", "t", "r", "a",
         "l", "i", "z", "e", "d", "_", "d", "n", "s", ":", ":">>],
     \* \bbrave_vpn::
     [class |-> {}, literal |-> <<"b", "r", "a", "v", "e", "_", "v", "p",
         "n", ":", ":">>],
     \* \bbrave_sync::
     [class |-> {}, literal |-> <<"b", "r", "a", "v", "e", "_", "s", "y",
         "n", "c", ":", ":">>],
     \* \bbrave_search
     [class |-> {}, literal |-> <<"b", "r", "a", "v", "e", "_", "s", "e",
         "a", "r", "c", "h">>],
     \* \bbrave_news::
     [class |-> {}, literal |-> <<"b", "r", "a", "v", "e", "_", "n", "e",
         "w", "s", ":", ":">>],
     \* \bbrave_federated::
     [class |-> {}, literal |-> <<"b", "r", "a", "v", "e", "_", "f", "e",
         "d", "e", "r", "a", "t", "e", "d", ":", ":">>]
    >>

Digits == {Digit[k] : k \in 1..10}

\* \w of a regular expression
WordChars == Range(UpperLetters) \cup Range(LowerLetters) \cup Digits \cup {"_"}

IsWordChar(c) == c \in WordChars

\* pattern.search(frame): the pattern matches at some position i, where \b
\* holds (a pattern starts with a word character, so \b asks for no word
\* character before it)
PatternSearch(pattern, frame) ==
    LET n == Len(pattern.literal)
        k == IF pattern.class = {} THEN 0 ELSE 1
    IN  \E i \in 1..Len(frame) :
            /\ i + n + k - 1 <= Len(frame)
            /\ i = 1 \/ ~IsWordChar(frame[i - 1])
            /\ Lower(SubSeq(frame, i, i + n - 1)) = pattern.literal
            /\ k = 1 => LowerChar(frame[i + n]) \in pattern.class

is_brave_frame(frame) ==
    \E p \in 1..Len(BRAVE_CODE_PATTERNS) : PatternSearch(BRAVE_CODE_PATTERNS[p], frame)

Contains(s, sub) ==
    \E i \in 1..Len(s) : i + Len(sub) - 1 <= Len(s) /\ SubSeq(s, i, i + Len(sub) - 1) = sub

\* re.sub(r'<[^>]*>', '', symbol)
RECURSIVE StripTemplates(_)
StripTemplates(s) ==
    IF s = <<>> THEN <<>>
    ELSE IF Head(s) = "<" /\ \E j \in 2..Len(s) : s[j] = ">"
         THEN LET close == CHOOSE j \in 2..Len(s) :
                               s[j] = ">" /\ \A h \in 2..(j - 1) : s[h] # ">"
              IN  StripTemplates(SubSeq(s, close + 1, Len(s)))
         ELSE <<Head(s)>> \o StripTemplates(Tail(s))

\* s.split("(")[0]
BeforeParen(s) ==
    IF \E j \in 1..Len(s) : s[j] = "("
    THEN SubSeq(s, 1, (CHOOSE j \in 1..Len(s) : s[j] = "(" /\ \A h \in 1..(j - 1) : s[h] # "(") - 1)
    ELSE s

\* str.strip()
RECURSIVE Strip(_)
Strip(s) ==
    IF s # <<>> /\ Head(s) = " " THEN Strip(Tail(s))
    ELSE IF s # <<>> /\ s[Len(s)] = " " THEN Strip(SubSeq(s, 1, Len(s) - 1))
    ELSE s

\* s.split("::"), the part being read in `cur`
RECURSIVE SplitScope(_, _)
SplitScope(s, cur) ==
    IF s = <<>> THEN <<cur>>
    ELSE IF StartsWith(s, <<":", ":">>)
         THEN <<cur>> \o SplitScope(SubSeq(s, 3, Len(s)), <<>>)
         ELSE SplitScope(Tail(s), Append(cur, Head(s)))

\* the name symbol_in_brave_src searches for: the last non-empty part
SearchName(symbol) ==
    LET clean == Strip(BeforeParen(StripTemplates(symbol)))
        parts == SelectSeq(SplitScope(clean, <<>>), LAMBDA p : p # <<>>)
    IN  IF parts = <<>> THEN <<>> ELSE parts[Len(parts)]

\* what a run of rg or grep ends in; "failed" is TimeoutExpired,
\* FileNotFoundError or OSError
SearchOutcomes == {"found", "not_found", "failed"}

\* symbol_in_brave_src: the value returned, the cache it leaves, whether rg
\* or grep ran
symbol_in_brave_src(symbol, path, cache, outcome) ==
    LET search_name == SearchName(symbol)
        no == [found |-> FALSE, cache |-> cache, ran |-> FALSE]
    IN  IF path = None \/ symbol = <<>> \/ symbol = <<"u", "n", "k", "n", "o", "w", "n">> THEN no
        ELSE IF ~Contains(symbol, <<":", ":">>) THEN no
        ELSE IF search_name = <<>> \/ Len(search_name) < 6 THEN no
        ELSE IF StartsWith(search_name, <<"l", "i", "b">>)
                    \/ StartsWith(search_name, <<"_", "_">>) THEN no
        ELSE IF search_name \in DOMAIN cache
             THEN [found |-> cache[search_name], cache |-> cache, ran |-> FALSE]
        ELSE [found |-> outcome = "found",
              cache |-> DictPut(cache, search_name, outcome = "found"),
              ran   |-> TRUE]

\* mutant: every frame is counted
TopFrames_All(fs) == fs

\* frames[:3]
TopFrames(fs) == SubSeq(fs, 1, Min2(3, Len(fs)))

\* classify_code_origin: the string returned, the cache it leaves, the
\* symbols it gave to symbol_in_brave_src, whether rg or grep ran
classify_code_origin(fs, path, cache, outcome) ==
    IF fs = <<>>
    THEN [origin |-> "chromium", cache |-> cache, searched |-> <<>>, ran |-> FALSE]
    ELSE LET top_frames == TopFrames(fs)
             namespace_count ==
                 Cardinality({i \in 1..Len(top_frames) : is_brave_frame(top_frames[i])})
             consult == namespace_count = 0 /\ path # None
             search == symbol_in_brave_src(fs[1], path, cache, outcome)
             brave_count == IF consult /\ search.found THEN 1 ELSE namespace_count
         IN  [origin   |-> IF brave_count = 0 THEN "chromium"
                           ELSE IF brave_count = Len(top_frames) THEN "brave"
                           ELSE "mixed",
              cache    |-> IF consult THEN search.cache ELSE cache,
              searched |-> IF consult THEN <<fs[1]>> ELSE <<>>,
              ran      |-> consult /\ search.ran]

\* the longest call stack drawn
MaxFrames == 4

FrameTexts ==
    {<<"B", "r", "a", "v", "e", ":", ":", "G", "o">>,
     <<"c", "c", ":", ":", "R", "e", "n", "d", "e", "r">>,
     <<"x", "b", "r", "a", "v", "e", ":", ":", "L", "a", "u", "n", "c", "h">>,
     <<"m", "a", "i", "n">>}

CallStacks == UNION {[1..n -> FrameTexts] : n \in 0..MaxFrames}

\* no source tree, or the path of one (its components)
SourcePaths == {None, <<"src", "brave">>}

\* the names the searches of earlier calls may have left in the cache
SearchNames == {n \in {SearchName(f) : f \in FrameTexts} : Len(n) >= 6}

Caches == UNION {[S -> BOOLEAN] : S \in SUBSET SearchNames}

CoStart ==
    /\ frames = <<>>
    /\ brave_src_path = None
    /\ code_origin = ""
    /\ symbol_grep_cache = EmptyDict
    /\ co_searched = <<>>
    /\ co_ran = FALSE

\* one call among those parse_response makes, one for every crash group:
\* the cache holds what the calls before it left (nothing without a path)
CoInit ==
    /\ frames = <<>>
    /\ brave_src_path \in SourcePaths
    /\ code_origin = ""
    /\ symbol_grep_cache \in IF brave_src_path = None THEN {EmptyDict} ELSE Caches
    /\ co_searched = <<>>
    /\ co_ran = FALSE

ClassifyCodeOrigin(fs, outcome) ==
    /\ code_origin = ""
    /\ \E r \in {classify_code_origin(fs, brave_src_path, symbol_grep_cache, outcome)} :
          /\ frames' = fs
          /\ code_origin' = r.origin
          /\ symbol_grep_cache' = r.cache
          /\ co_searched' = r.searched
          /\ co_ran' = r.ran
    /\ UNCHANGED brave_src_path
    /\ CoFrame

CoNext == \E fs \in CallStacks, outcome \in SearchOutcomes : ClassifyCodeOrigin(fs, outcome)

(***************************************************************************)
(* check-upstream-flake.py: the head of main. The run starts at "start";   *)
(* search_tests (QueryTests) follows once the arguments are accepted.      *)
(***************************************************************************)
\* the command line: whether the test name is given, and the text behind
\* --days (None without the flag)
FlakeArgv ==
    [test_name : BOOLEAN,
     days : {None, <<"0">>, <<"1">>, <<"9", "0">>, <<"9", "1">>, <<"a", "b", "c">>}]

\* parser.parse_args(): the positional test_name is required and --days
\* has type=int and default=30; on an error argparse prints the usage and
\* calls sys.exit(2)
parse_args(argv) ==
    IF ~argv.test_name \/ (argv.days # None /\ ~IntOf(argv.days).ok)
    THEN [ok |-> FALSE, days |-> 0]
    ELSE [ok |-> TRUE, days |-> IF argv.days = None THEN 30 ELSE IntOf(argv.days).val]

\* mutant: only the lower end of the range is tested
DaysInRange_NoUpper(d) == ~(d < 1)

\* not (args.days < 1 or args.days > 90)
DaysInRange(d) == ~(d < 1 \/ d > 90)

\* the --days default of argparse
FmStart == fc_days = 30

FcMainInit ==
    /\ fc_pc = "start"
    /\ fc_rc = 0
    /\ all_test_ids = <<>>
    /\ page_token = ""
    /\ fc_requests = <<>>
    /\ fc_outcomes = <<>>
    /\ fc_attempts = 0
    /\ fc_days = 30

\* the flake checker is not run
FcOff ==
    /\ fc_pc = "off"
    /\ fc_rc = 0
    /\ all_test_ids = <<>>
    /\ page_token = ""
    /\ fc_requests = <<>>
    /\ fc_outcomes = <<>>
    /\ fc_attempts = 0
    /\ fc_days = 30

\* main up to the call of search_tests (lines 493-523)
FcValidate(argv) ==
    /\ fc_pc = "start"
    /\ IF ~parse_args(argv).ok
       THEN fc_pc' = "exit" /\ fc_rc' = 2 /\ UNCHANGED fc_days
       ELSE /\ fc_days' = parse_args(argv).days
            /\ IF DaysInRange(fc_days')
               THEN fc_pc' = "search" /\ UNCHANGED fc_rc
               ELSE fc_pc' = "exit" /\ fc_rc' = 1
    /\ UNCHANGED <<all_test_ids, page_token, fc_requests, fc_outcomes, fc_attempts>>
    /\ FmFrame

(***************************************************************************)
(* top-crashers.py: main, one run. Times are milliseconds since            *)
(* 2025-01-01 00:00 UTC; an option is drawn where main first reads it;     *)
(* --platform, --version, --channel, --channels and --brave-src stay at    *)
(* their defaults and no src/brave tree is found.                          *)
(***************************************************************************)
\* timedelta(days=1), in milliseconds
Day == 86400000

\* datetime.now(timezone.utc): 2025-01-11 00:00:00.000 and 12:00:00.500
NowValues == {10 * Day, 10 * Day + 43200500}

\* --since: absent, a date, a text that is no date
SinceTexts ==
    {None,
     <<"2", "0", "2", "5", "-", "0", "1", "-", "0", "9">>,
     <<"0", "1", "/", "0", "9", "/", "2", "0", "2", "5">>}

RECURSIVE SplitChar(_, _, _)
SplitChar(s, ch, cur) ==
    IF s = <<>> THEN <<cur>>
    ELSE IF Head(s) = ch THEN <<cur>> \o SplitChar(Tail(s), ch, <<>>)
    ELSE SplitChar(Tail(s), ch, Append(cur, Head(s)))

AllDigits(s) == s # <<>> /\ \A i \in 1..Len(s) : IsDigit(s[i])

\* datetime.strptime(text, "%Y-%m-%d").replace(tzinfo=timezone.utc)
\* .timestamp(), or a ValueError (ok = FALSE); the dates drawn are of
\* January 2025, so the day of the month gives the timestamp
Strptime(text) ==
    LET parts == SplitChar(text, "-", <<>>)
    IN  IF /\ Len(parts) = 3
           /\ \A i \in 1..3 : AllDigits(parts[i])
           /\ Len(parts[1]) = 4
           /\ Len(parts[2]) \in 1..2 /\ DigitsValue(parts[2], 0) \in 1..12
           /\ Len(parts[3]) \in 1..2 /\ DigitsValue(parts[3], 0) \in 1..31
        THEN [ok |-> TRUE, ts |-> (DigitsValue(parts[3], 0) - 1) * Day]
        ELSE [ok |-> FALSE, ts |-> 0]

\* int() of a timestamp: whole seconds
IntSeconds(ts) == ts \div 1000

build_query(days_start, days_end_ts, limit) ==
    [at_least |-> IntSeconds(days_start),
     at_most  |-> IntSeconds(days_end_ts),
     limit    |-> limit]

\* the defaults of argparse, with the two environment variables set
DefaultArgs ==
    [api_key |-> TRUE, project |-> TRUE, limit |-> 25, min_count |-> 10,
     frames |-> 8, since |-> None, compare |-> 0, days |-> 7, dry_run |-> FALSE,
     verbose |-> FALSE, brave_only |-> FALSE, new_only |-> FALSE,
     crashes_only |-> FALSE, order |-> "count", channels |-> None]

\* what main reads before it builds the first query
ArgSets ==
    {[DefaultArgs EXCEPT !.api_key = k, !.project = p, !.limit = l, !.min_count = mc,
                         !.frames = f, !.since = s, !.compare = c, !.days = d,
                         !.dry_run = dr] :
        k \in BOOLEAN, p \in BOOLEAN, l \in {0, 1, 501}, mc \in {-1, 2}, f \in {0, 1},
        s \in SinceTexts, c \in {0, 2}, d \in {1, 3}, dr \in BOOLEAN}

\* mutant: --frames is not validated
ValidationError_NoFrames(a) ==
    IF ~a.api_key /\ ~a.dry_run THEN "Error: BACKTRACE_API_KEY"
    ELSE IF ~a.project THEN "Error: --project"
    ELSE IF a.limit < 1 \/ a.limit > 500 THEN "Error: --limit"
    ELSE IF a.min_count < 0 THEN "Error: --min-count"
    ELSE IF a.since # None /\ ~Strptime(a.since).ok THEN "Error: --since"
    ELSE ""

\* the message of the first check of main that fails, "" when none does
ValidationError(a) ==
    IF ~a.api_key /\ ~a.dry_run THEN "Error: BACKTRACE_API_KEY"
    ELSE IF ~a.project THEN "Error: --project"
    ELSE IF a.limit < 1 \/ a.limit > 500 THEN "Error: --limit"
    ELSE IF a.min_count < 0 THEN "Error: --min-count"
    ELSE IF a.frames < 1 THEN "Error: --frames"
    ELSE IF a.since # None /\ ~Strptime(a.since).ok THEN "Error: --since"
    ELSE ""

QueryLimit(a) == IF a.compare # 0 THEN a.limit * 3 ELSE a.limit

\* an item of a pair list: a [value, count] pair, or something that is no
\* list of two
Pair(value, count) == [pair |-> TRUE, value |-> value, count |-> count]

NoPair == [pair |-> FALSE, value |-> "", count |-> 0]

\* result[str(item[0])] = item[1]: a dict keeps its keys in the order of
\* their first insertion
RECURSIVE DictSet(_, _, _)
DictSet(dict, key, value) ==
    IF dict = <<>> THEN <<[key |-> key, value |-> value]>>
    ELSE IF Head(dict).key = key THEN <<[key |-> key, value |-> value]>> \o Tail(dict)
    ELSE <<Head(dict)>> \o DictSet(Tail(dict), key, value)

RECURSIVE HistogramFrom(_, _)
HistogramFrom(pairs, result) ==
    IF pairs = <<>> THEN result
    ELSE HistogramFrom(Tail(pairs),
                       IF Head(pairs).pair
                       THEN DictSet(result, Head(pairs).value, Head(pairs).count)
                       ELSE result)

histogram_from_pairs(pairs) == HistogramFrom(pairs, <<>>)

RECURSIVE SumValues(_)
SumValues(histogram) ==
    IF histogram = <<>> THEN 0 ELSE Head(histogram).value + SumValues(Tail(histogram))

\* max(histogram, key=...): the first key of the highest count
RECURSIVE MaxKey(_, _)
MaxKey(histogram, best) ==
    IF histogram = <<>> THEN best.key
    ELSE MaxKey(Tail(histogram),
                IF Head(histogram).value > best.value THEN Head(histogram) ELSE best)

\* mutant: the first bucket is taken for the top one
extract_top_bucket_First(histogram) ==
    IF histogram = <<>> THEN None
    ELSE IF SumValues(histogram) = 0 THEN None
    ELSE <<Head(histogram).key>>

\* the top value of extract_top_bucket: None, or <<the value>>
extract_top_bucket(histogram) ==
    IF histogram = <<>> THEN None
    ELSE IF SumValues(histogram) = 0 THEN None
    ELSE <<MaxKey(Tail(histogram), Head(histogram))>>

(***************************************************************************)
(* top-crashers.py: fetch_channel_versions and build_channel_breakdown. A  *)
(* version is the list of its dot-separated parts; a dict is the list of   *)
(* its items in insertion order.                                           *)
(***************************************************************************)
MaxColumns == 4

MaxVersions == 2

DEFAULT_CHANNEL_VERSIONS ==
    <<[key |-> "nightly", value |-> <<"1", "89">>],
      [key |-> "beta", value |-> <<"1", "88">>],
      [key |-> "release", value |-> <<"1", "87">>]>>

\* the lowercased cells of the header row after its label
ColumnNames == {"release", "beta", "nightly", "dev"}

\* the cells of the Milestone row after its label
Milestones == <<<<"1", "87", "x">>, <<"1", "88", "x">>, <<"1", "89", "x">>, <<"1", "90", "x">>>>

\* the release-schedule tables: the columns differ, the page is not there
\* at all, or the table has fewer than three columns
WikiTables ==
    UNION {{cols \in [1..n -> ColumnNames] : \A i, j \in 1..n : cols[i] = cols[j] => i = j} :
           n \in 2..MaxColumns}

WikiPages == {[fetched |-> TRUE, channel_cols |-> cols] : cols \in WikiTables}
                 \cup {[fetched |-> FALSE, channel_cols |-> <<>>]}

\* re.search(r'(\d+\.\d+)', cell).group(1)
MajorMinor(cell) == <<cell[1], cell[2]>>

RECURSIVE MilestoneRow(_, _, _)
MilestoneRow(channel_cols, i, versions) ==
    IF i > Len(channel_cols) THEN versions
    ELSE MilestoneRow(channel_cols, i + 1,
                      IF i <= Len(Milestones)
                      THEN DictSet(versions, channel_cols[i], MajorMinor(Milestones[i]))
                      ELSE versions)

fetch_channel_versions(page) ==
    IF page.fetched /\ Len(MilestoneRow(page.channel_cols, 1, <<>>)) >= 3
    THEN MilestoneRow(page.channel_cols, 1, <<>>)
    ELSE DEFAULT_CHANNEL_VERSIONS

\* parse_brave_version: parts[1].parts[2] of a version of three parts or
\* more, else None
parse_brave_version(version_str) ==
    IF Len(version_str) >= 3 THEN <<version_str[2], version_str[3]>> ELSE None

\* ver_to_channel[ver] = channel
RECURSIVE Inverted(_, _)
Inverted(items, ver_to_channel) ==
    IF items = <<>> THEN ver_to_channel
    ELSE Inverted(Tail(items), DictSet(ver_to_channel, Head(items).value, Head(items).key))

HasKey(dict, key) == \E i \in 1..Len(dict) : dict[i].key = key

Get(dict, key) == dict[CHOOSE i \in 1..Len(dict) : dict[i].key = key].value

\* the key of breakdown that the count of a version is added to
ChannelOf(version_str, ver_to_channel) ==
    IF parse_brave_version(version_str) # None
       /\ HasKey(ver_to_channel, parse_brave_version(version_str))
    THEN Get(ver_to_channel, parse_brave_version(version_str))
    ELSE "older"

\* the loop over version_hist.items(): breakdown[key] += count raises
\* KeyError for a key that breakdown does not have
RECURSIVE Counted(_, _, _)
Counted(items, ver_to_channel, breakdown) ==
    IF items = <<>> THEN [raised |-> "", breakdown |-> breakdown]
    ELSE LET channel == ChannelOf(Head(items).key, ver_to_channel)
         IN  IF channel \notin DOMAIN breakdown
             THEN [raised |-> "KeyError", breakdown |-> breakdown]
             ELSE Counted(Tail(items), ver_to_channel,
                          [breakdown EXCEPT ![channel] = @ + Head(items).value])

build_channel_breakdown(hist, versions) ==
    Counted(hist, Inverted(versions, <<>>),
            [nightly |-> 0, beta |-> 0, release |-> 0, older |-> 0])

\* an entry of response["response"]["values"]: a crash group, something
\* that is no list of two, or a group with fewer than six folds
Entries ==
    {[shape |-> "group", fingerprint |-> "f1", count |-> 5,
      classifier |-> <<"d", "u", "m", "p">>,
      callstack |-> <<<<"B", "r", "a", "v", "e", ":", ":", "G", "o">>>>, ts_data |-> <<10 * Day>>,
      platform_pairs |-> <<Pair("Windows", 3), Pair("Linux", 2)>>,
      version_pairs |-> <<Pair(<<"146", "1", "89", "3">>, 5)>>],
     [shape |-> "group", fingerprint |-> "f2", count |-> 1,
      classifier |-> <<"s", "e", "g", "v">>,
      callstack |-> <<<<"c", "c", ":", ":", "R", "e", "n", "d", "e", "r">>, <<"m", "a", "i", "n">>>>, ts_data |-> <<0, Day>>,
      platform_pairs |-> <<>>, version_pairs |-> <<Pair(<<"146", "1", "87", "1">>, 1)>>],
     [shape |-> "not_list", fingerprint |-> "", count |-> 0, classifier |-> <<>>,
      callstack |-> <<>>, ts_data |-> <<>>, platform_pairs |-> <<>>, version_pairs |-> <<>>],
     [shape |-> "short_folds", fingerprint |-> "f1", count |-> 0, classifier |-> <<>>,
      callstack |-> <<>>, ts_data |-> <<>>, platform_pairs |-> <<>>, version_pairs |-> <<>>]}

Entry(fp, shape) == CHOOSE e \in Entries : e.fingerprint = fp /\ e.shape = shape

\* the `values` lists the service answers with
Responses ==
    {<<>>,
     <<Entry("", "not_list")>>,
     <<Entry("f1", "group")>>,
     <<Entry("f1", "group"), Entry("f2", "group")>>,
     <<Entry("f1", "short_folds"), Entry("f2", "group")>>}

\* the dict parse_response appends for one entry; the channel versions are
\* those of the release-schedule table with the three default columns
CrashGroup(e, window_days, max_frames, lookback_start_ts) ==
    LET shown == SubSeq(e.callstack, 1, Min2(max_frames, Len(e.callstack)))
    IN  [fingerprint     |-> e.fingerprint,
         count           |-> e.count,
         crashes_per_day |-> RoundTenths(e.count, IF window_days > 1 THEN window_days ELSE 1),
         crash_type      |-> classify_crash_type(e.classifier),
         top_platform    |-> extract_top_bucket(histogram_from_pairs(e.platform_pairs)),
         channel_breakdown |->
             build_channel_breakdown(histogram_from_pairs(e.version_pairs),
                                     DEFAULT_CHANNEL_VERSIONS).breakdown,
         code_origin     |-> classify_code_origin(shown, None, EmptyDict, "not_found").origin,
         last_seen_ts    |-> IF Len(e.ts_data) >= 2 THEN <<e.ts_data[2]>>
                             ELSE IF Len(e.ts_data) = 1 THEN <<e.ts_data[1]>> ELSE None,
         is_new          |-> Len(e.ts_data) >= 1 /\ e.ts_data[1] >= lookback_start_ts]

\* parse_response: the crash groups, and whether an entry was skipped as
\* malformed (the two `continue` before the count is read)
parse_response(values, window_days, max_frames, min_count, lookback_start_ts) ==
    LET kept == SelectSeq(values, LAMBDA e : e.shape = "group" /\ ~(e.count < min_count))
    IN  [crashers |-> [n \in 1..Len(kept) |->
                          CrashGroup(kept[n], window_days, max_frames, lookback_start_ts)],
         skipped  |-> \E n \in 1..Len(values) : values[n].shape # "group"]

\* the key sort_crashers sorts on
OrderKey(c, order) ==
    IF order = "last-seen" THEN (IF c.last_seen_ts = None THEN 0 ELSE c.last_seen_ts[1])
    ELSE IF order = "rate" THEN c.crashes_per_day
    ELSE c.count

\* list.sort(reverse=True) is stable: x goes before the first element of a
\* smaller key
RECURSIVE InsertDescending(_, _, _)
InsertDescending(x, sorted, order) ==
    IF sorted = <<>> THEN <<x>>
    ELSE IF OrderKey(Head(sorted), order) < OrderKey(x, order)
         THEN <<x>> \o sorted
         ELSE <<Head(sorted)>> \o InsertDescending(x, Tail(sorted), order)

RECURSIVE SortDescending(_, _, _)
SortDescending(list, sorted, order) ==
    IF list = <<>> THEN sorted
    ELSE SortDescending(Tail(list), InsertDescending(Head(list), sorted, order), order)

\* c["rank"] = i for i, c in enumerate(list, 1)
Ranked(list) == [n \in 1..Len(list) |-> [rank |-> n] @@ [f \in DOMAIN list[n] \ {"rank"} |-> list[n][f]]]

sort_crashers(list, order) == Ranked(SortDescending(list, <<>>, order))

\* the backtrace_query call has not begun, or its result has been taken
BqIdle ==
    /\ bq_pc = "idle"
    /\ bq_attempt = 0
    /\ bq_rc = 0
    /\ bq_outcomes = <<>>
    /\ bq_waits = <<>>

BqIdleNext ==
    /\ bq_pc' = "idle"
    /\ bq_attempt' = 0
    /\ bq_rc' = 0
    /\ bq_outcomes' = <<>>
    /\ bq_waits' = <<>>

\* backtrace_query is called
BqCall ==
    /\ bq_pc' = "request"
    /\ bq_attempt' = 0
    /\ bq_rc' = 0
    /\ bq_outcomes' = <<>>
    /\ bq_waits' = <<>>

TcInit ==
    /\ tc_pc = "start"
    /\ tc_rc = 0
    /\ args = DefaultArgs
    /\ now_ts = 0
    /\ start_ts = 0
    /\ days = 0
    /\ crashers = <<>>
    /\ tc_queries = <<>>
    /\ tc_printed = ""
    /\ tc_stderr = {}
    /\ tc_caught = {}
    /\ tc_net = {}
    /\ tc_calls = 0

\* the crash reporter is not run
TcOff ==
    /\ tc_pc = "off"
    /\ tc_rc = 0
    /\ args = DefaultArgs
    /\ now_ts = 0
    /\ start_ts = 0
    /\ days = 0
    /\ crashers = <<>>
    /\ tc_queries = <<>>
    /\ tc_printed = ""
    /\ tc_stderr = {}
    /\ tc_caught = {}
    /\ tc_net = {}
    /\ tc_calls = 0

\* print(message, file=sys.stderr); sys.exit(status)
TcExit(status, messages) ==
    /\ tc_pc' = "exit"
    /\ tc_rc' = status
    /\ tc_stderr' = tc_stderr \cup messages

\* main from parse_args to the first build_query (lines 1302-1361)
TcValidate(a, now) ==
    /\ tc_pc = "start"
    /\ args' = a
    /\ now_ts' = now
    /\ IF ValidationError(a) # ""
       THEN /\ TcExit(1, {ValidationError(a)})
            /\ UNCHANGED <<start_ts, days, tc_queries>>
       ELSE /\ \E since \in {IF a.since # None THEN Strptime(a.since).ts ELSE 0} :
                  /\ days' = IF a.since # None
                             THEN (IF (now - since) \div Day > 1 THEN (now - since) \div Day ELSE 1)
                             ELSE IF a.compare # 0 THEN a.compare ELSE a.days
                  /\ start_ts' = IF a.since # None THEN since ELSE now - days' * Day
            /\ tc_queries' = <<build_query(start_ts', now, QueryLimit(a))>>
            /\ tc_pc' = IF a.dry_run THEN "dry_run" ELSE "setup"
            /\ UNCHANGED <<tc_rc, tc_stderr>>
    /\ UNCHANGED <<crashers, tc_printed, tc_caught, tc_net, tc_calls>>
    /\ UNCHANGED bqVars
    /\ TcFrame

\* the query over the window before the recent one
BaselineQuery == build_query(now_ts - (days * 2) * Day, start_ts, QueryLimit(args))

\* the dry run (lines 1363-1388)
TcDryRun ==
    /\ tc_pc = "dry_run"
    /\ tc_queries' = IF args.compare # 0 THEN Append(tc_queries, BaselineQuery)
                     ELSE tc_queries
    /\ tc_printed' = "dry_run"
    /\ TcExit(0, {})
    /\ UNCHANGED <<args, now_ts, start_ts, days, crashers, tc_caught, tc_net, tc_calls>>
    /\ UNCHANGED bqVars
    /\ TcFrame

\* what fetch_channel_versions meets: the table, an exception, or a page
\* with fewer than three versions
WikiOutcomes == {"ok", "failed", "short"}

\* find_brave_src, fetch_channel_versions and the call of backtrace_query
\* for the recent window (lines 1390-1412)
TcSetup(verbose, brave_only, wiki) ==
    /\ tc_pc = "setup"
    /\ args' = [args EXCEPT !.verbose = verbose, !.brave_only = brave_only]
    /\ tc_net' = tc_net \cup {"raw.githubusercontent.com"}
    /\ tc_caught' = IF wiki = "failed" THEN tc_caught \cup {"fetch_channel_versions"}
                    ELSE tc_caught
    /\ tc_stderr' = tc_stderr
            \cup (IF verbose THEN {"Brave source not found"} ELSE {})
            \cup (IF brave_only THEN {"Warning: --brave-only used but src/brave not found"}
                  ELSE {})
            \cup (IF verbose /\ wiki = "ok" THEN {"Channel versions from wiki"} ELSE {})
            \cup (IF verbose /\ wiki = "failed"
                  THEN {"Could not fetch wiki channel versions"} ELSE {})
            \cup (IF verbose /\ wiki # "ok" THEN {"Using fallback channel versions"} ELSE {})
            \cup {"Querying Backtrace"}
    /\ BqCall
    /\ tc_calls' = 1
    /\ tc_pc' = "recent"
    /\ UNCHANGED <<tc_rc, now_ts, start_ts, days, crashers, tc_queries, tc_printed>>
    /\ TcFrame

\* parse_response on the answer for the recent window and, in compare
\* mode, the call of backtrace_query for the baseline (lines 1413-1438)
TcParseRecent(values) ==
    /\ tc_pc = "recent"
    /\ bq_pc = "return"
    /\ \E parsed \in {parse_response(values, days, args.frames, args.min_count, start_ts)} :
          /\ crashers' = parsed.crashers
          /\ tc_caught' = IF parsed.skipped THEN tc_caught \cup {"parse_response"}
                          ELSE tc_caught
    /\ tc_stderr' = tc_stderr
            \cup (IF args.verbose THEN {"Parsed crash groups"} ELSE {})
            \cup (IF args.compare # 0 THEN {"Querying baseline window"} ELSE {})
    /\ IF args.compare # 0
       THEN /\ tc_queries' = Append(tc_queries, BaselineQuery)
            /\ BqCall
            /\ tc_calls' = 2
            /\ tc_pc' = "baseline"
       ELSE /\ BqIdleNext
            /\ tc_pc' = "finish"
            /\ UNCHANGED <<tc_queries, tc_calls>>
    /\ UNCHANGED <<tc_rc, args, now_ts, start_ts, days, tc_printed, tc_net>>
    /\ TcFrame

\* compare_windows and the cut to --limit (lines 1449-1451)
Compared(rec, bl, limit) ==
    LET compared == compare_windows(rec, bl)
    IN  SubSeq(compared, 1, Min2(limit, Len(compared)))

\* mutant: --new-only and --order are applied in compare mode as well
Ordered_AlsoCompared(list, a) ==
    sort_crashers(IF a.new_only THEN SelectSeq(list, LAMBDA c : c.is_new) ELSE list, a.order)

\* outside compare mode: --new-only and sort_crashers (lines 1452-1458)
Ordered(list, a) ==
    IF a.compare # 0 THEN list
    ELSE sort_crashers(IF a.new_only THEN SelectSeq(list, LAMBDA c : c.is_new) ELSE list,
                       a.order)

\* the values of --channels: not given, or its names, split at the commas
ChannelLists == {None, <<"all">>, <<"nightly">>, <<"release", "beta">>}

\* --crashes-only, --channels and --brave-only (lines 1460-1470)
PostFiltered(list, a) ==
    SelectSeq(list, LAMBDA c :
        /\ a.crashes_only => c.crash_type # "dump"
        /\ (a.channels # None /\ a.channels # <<"all">>)
              => \E i \in 1..Len(a.channels) :
                    /\ a.channels[i] \in DOMAIN c.channel_breakdown
                    /\ c.channel_breakdown[a.channels[i]] > 0
        /\ a.brave_only => c.code_origin \in {"brave", "mixed"})

\* mutant: the ranks given before the filters are kept
Reranked_Kept(list) == list

\* c["rank"] = i in the order of the list (lines 1472-1474)
Reranked(list) == Ranked(list)

\* parse_response on the answer for the baseline, compare_windows and the
\* cut to --limit (lines 1439-1451)
TcParseBaseline(values) ==
    /\ tc_pc = "baseline"
    /\ bq_pc = "return"
    /\ \E parsed \in {parse_response(values, days, args.frames, 0,
                                     now_ts - (days * 2) * Day)} :
          /\ crashers' = Compared(crashers, parsed.crashers, args.limit)
          /\ tc_caught' = IF parsed.skipped THEN tc_caught \cup {"parse_response"}
                          ELSE tc_caught
    /\ tc_stderr' = tc_stderr
            \cup (IF args.verbose THEN {"Parsed baseline crash groups"} ELSE {})
    /\ BqIdleNext
    /\ tc_pc' = "finish"
    /\ UNCHANGED <<tc_rc, args, now_ts, start_ts, days, tc_queries, tc_printed, tc_net,
                   tc_calls>>
    /\ TcFrame

Orders == {"count", "last-seen", "rate"}

\* --new-only and sort_crashers outside compare mode, the filters, the
\* ranks, and the report or the exit with status 3 (lines 1452-1492)
TcFinish(new_only, crashes_only, order, channels) ==
    /\ tc_pc = "finish"
    /\ args' = [args EXCEPT !.new_only = new_only, !.crashes_only = crashes_only,
                            !.order = order, !.channels = channels]
    /\ \E kept \in {PostFiltered(Ordered(crashers, args'), args')} :
          /\ crashers' = Reranked(kept)
          /\ IF kept = <<>>
             THEN /\ TcExit(3, {"No crashes found matching the criteria."})
                  /\ UNCHANGED tc_printed
             ELSE /\ TcExit(0, {"Found crash groups."})
                  /\ tc_printed' = "report"
    /\ UNCHANGED <<now_ts, start_ts, days, tc_queries, tc_caught, tc_net, tc_calls>>
    /\ UNCHANGED bqVars
    /\ TcFrame

\* one run of the crash reporter or one run of the flake checker
CliInit == (TcInit /\ FcOff) \/ (TcOff /\ FcMainInit)

CliNext ==
    \/ \E a \in ArgSets, now \in NowValues : TcValidate(a, now)
    \/ TcDryRun
    \/ \E verbose \in BOOLEAN, brave_only \in BOOLEAN, wiki \in WikiOutcomes :
          TcSetup(verbose, brave_only, wiki)
    \/ \E o \in Outcomes : BqRequest(o)
    \/ BqBackoff
    \/ \E valid_json \in BOOLEAN : BqParse(valid_json)
    \/ \E values \in Responses : TcParseRecent(values)
    \/ \E values \in Responses : TcParseBaseline(values)
    \/ \E new_only \in BOOLEAN, crashes_only \in BOOLEAN, order \in Orders,
          channels \in ChannelLists :
          TcFinish(new_only, crashes_only, order, channels)
    \/ \E argv \in FlakeArgv : FcValidate(argv)
    \/ \E o \in FcOutcomes : QueryTests(o)

(***************************************************************************)
(* top-crashers.py: format_markdown, format_json_output, format_ndjson and *)
(* format_csv_output. An output is, for every group in the order of the    *)
(* output, the text it holds for each field of the group it shows.         *)
(***************************************************************************)
\* str(n) of a natural number
RECURSIVE IntText(_)
IntText(n) ==
    IF n < 10 THEN <<Digit[n + 1]>>
    ELSE Append(IntText(n \div 10), Digit[(n % 10) + 1])

\* the "," format of an integer: a comma before every group of three digits
RECURSIVE Grouped(_)
Grouped(text) ==
    IF Len(text) <= 3 THEN text
    ELSE Grouped(SubSeq(text, 1, Len(text) - 3)) \o <<",">>
            \o SubSeq(text, Len(text) - 2, Len(text))

\* repr() of a float that round(x, 1) returned, given as its tenths
TenthsText(t) == IntText(t \div 10) \o <<".">> \o <<Digit[(t % 10) + 1]>>

\* str() of a change factor
FloatStr(x) == IF x.inf THEN <<"i", "n", "f">> ELSE TenthsText(x.tenths)

\* json.dumps of a change factor (allow_nan is left at True)
FloatJson(x) == IF x.inf THEN <<"I", "n", "f", "i", "n", "i", "t", "y">> ELSE TenthsText(x.tenths)

BoolStr(b) == IF b THEN <<"T", "r", "u", "e">> ELSE <<"F", "a", "l", "s", "e">>

BoolJson(b) == IF b THEN <<"t", "r", "u", "e">> ELSE <<"f", "a", "l", "s", "e">>

\* json.dumps of a str (of characters that need no escape) or of None
StrJson(s) == IF s = None THEN <<"n", "u", "l", "l">> ELSE <<"\"">> \o s \o <<"\"">>

\* the upper-case letter of every lower-case letter
ToUpper ==
    [c \in Range(LowerLetters) |->
        UpperLetters[CHOOSE k \in 1..Len(LowerLetters) : LowerLetters[k] = c]]

\* str.upper()
Upper(s) == [i \in 1..Len(s) |-> IF s[i] \in DOMAIN ToUpper THEN ToUpper[s[i]] ELSE s[i]]

RECURSIVE Join(_, _)
Join(parts, sep) ==
    IF parts = <<>> THEN <<>>
    ELSE IF Len(parts) = 1 THEN parts[1]
    ELSE parts[1] \o sep \o Join(Tail(parts), sep)

format_brave_version(version_str) ==
    LET parts == SplitChar(version_str, ".", <<>>)
    IN  IF Len(parts) >= 4
        THEN <<"B", "r", "a", "v", "e", " ">> \o Join(SubSeq(parts, 2, 4), <<".">>)
                \o <<" ", "(", "C", "r", " ">> \o parts[1] \o <<")">>
        ELSE IF Len(parts) >= 3
        THEN <<"B", "r", "a", "v", "e", " ">> \o Join(SubSeq(parts, 2, 3), <<".">>)
                \o <<" ", "(", "C", "r", " ">> \o parts[1] \o <<")">>
        ELSE version_str

\* the longest report drawn
MaxReport == 2

\* crash groups as parse_response builds them; channel_total is
\* sum(channel_breakdown.values())
Groups ==
    {[fingerprint |-> <<"a", "b", "1", "2">>, count |-> 1234, crashes_per_day |-> 1763,
      classifier |-> <<"d", "u", "m", "p">>, crash_type |-> <<"d", "u", "m", "p">>,
      code_origin |-> <<"b", "r", "a", "v", "e">>,
      top_platform |-> <<"W", "i", "n", "d", "o", "w", "s">>,
      top_version |-> <<"1", "4", "5", ".", "1", ".", "8", "7", ".", "4", "2">>,
      top_channel |-> <<"n", "i", "g", "h", "t", "l", "y">>,
      affects_nightly |-> TRUE, channel_total |-> 1234, is_new |-> TRUE],
     [fingerprint |-> <<"c", "d", "3", "4">>, count |-> 5, crashes_per_day |-> 7,
      classifier |-> <<"S", "I", "G", "S", "E", "G", "V">>, crash_type |-> <<"c", "r", "a", "s", "h">>,
      code_origin |-> <<"c", "h", "r", "o", "m", "i", "u", "m">>,
      top_platform |-> None, top_version |-> None,
      top_channel |-> <<"u", "n", "k", "n", "o", "w", "n">>,
      affects_nightly |-> FALSE, channel_total |-> 0, is_new |-> FALSE],
     [fingerprint |-> <<"e", "f", "5", "6">>, count |-> 1000000, crashes_per_day |-> 1428571,
      classifier |-> <<"D", "u", "m", "p">>, crash_type |-> <<"d", "u", "m", "p">>,
      code_origin |-> <<"m", "i", "x", "e", "d">>,
      top_platform |-> <<"L", "i", "n", "u", "x">>,
      top_version |-> <<"1", "4", "5", ".", "1", ".", "8", "7">>,
      top_channel |-> <<"r", "e", "l", "e", "a", "s", "e">>,
      affects_nightly |-> FALSE, channel_total |-> 1000000, is_new |-> FALSE]}

\* what compare_windows may have written into a group
Annotations ==
    {[regression_badge |-> <<"N", "E", "W">>, change_factor |-> Infinity, baseline_count |-> 0],
     [regression_badge |-> <<"R", "I", "S", "I", "N", "G">>, change_factor |-> Infinity,
      baseline_count |-> 0],
     [regression_badge |-> <<"R", "I", "S", "I", "N", "G">>,
      change_factor |-> [inf |-> FALSE, tenths |-> 125], baseline_count |-> 99],
     [regression_badge |-> <<"S", "T", "A", "B", "L", "E">>,
      change_factor |-> [inf |-> FALSE, tenths |-> 10], baseline_count |-> 1200],
     [regression_badge |-> <<"F", "A", "L", "L", "I", "N", "G">>,
      change_factor |-> [inf |-> FALSE, tenths |-> 0], baseline_count |-> 2500000]}

\* the groups a report can hold: plain, or annotated in compare mode
ReportGroups(compare) ==
    IF compare THEN {a @@ g : a \in Annotations, g \in Groups} ELSE Groups

\* the reports: groups of distinct fingerprints, ranked by their position
Reports(compare) ==
    UNION {{[i \in 1..n |-> [rank |-> i] @@ w[i]] :
               w \in {v \in [1..n -> ReportGroups(compare)] :
                         \A i, j \in 1..n : v[i].fingerprint = v[j].fingerprint => i = j}} :
           n \in 1..MaxReport}

\* mutant: the "Affects Nightly" row says Yes for every group
MarkdownFields_AlwaysNightly(c, compare) ==
    [rank |-> <<"#">> \o IntText(c.rank),
     fingerprint |-> c.fingerprint,
     count |-> Grouped(IntText(c.count)),
     crashes_per_day |-> TenthsText(c.crashes_per_day) \o <<"/", "d", "a", "y">>,
     crash_type |-> Upper(c.crash_type),
     code_origin |-> c.code_origin,
     classifier |-> c.classifier]
    @@ (IF compare /\ c.regression_badge # <<>>
        THEN [regression_badge |-> c.regression_badge]
        ELSE [is_new |-> IF c.is_new THEN <<"N", "E", "W">> ELSE <<>>])
    @@ (IF c.top_platform # None THEN [top_platform |-> c.top_platform] ELSE <<>>)
    @@ (IF c.top_version # None
        THEN [top_version |-> format_brave_version(c.top_version)] ELSE <<>>)
    @@ (IF c.channel_total > 0 THEN [affects_nightly |-> <<"Y", "e", "s">>] ELSE <<>>)
    @@ (IF compare THEN [baseline_count |-> Grouped(IntText(c.baseline_count))] ELSE <<>>)
    @@ (IF compare /\ ~c.change_factor.inf
        THEN [change_factor |-> TenthsText(c.change_factor.tenths) \o <<"x">>] ELSE <<>>)

\* the heading, the badges and the rows of the table format_markdown
\* writes for one group; the fingerprint is the content of a code span
MarkdownFields(c, compare) ==
    [rank |-> <<"#">> \o IntText(c.rank),
     fingerprint |-> c.fingerprint,
     count |-> Grouped(IntText(c.count)),
     crashes_per_day |-> TenthsText(c.crashes_per_day) \o <<"/", "d", "a", "y">>,
     crash_type |-> Upper(c.crash_type),
     code_origin |-> c.code_origin,
     classifier |-> c.classifier]
    @@ (IF compare /\ c.regression_badge # <<>>
        THEN [regression_badge |-> c.regression_badge]
        ELSE [is_new |-> IF c.is_new THEN <<"N", "E", "W">> ELSE <<>>])
    @@ (IF c.top_platform # None THEN [top_platform |-> c.top_platform] ELSE <<>>)
    @@ (IF c.top_version # None
        THEN [top_version |-> format_brave_version(c.top_version)] ELSE <<>>)
    @@ (IF c.channel_total > 0
        THEN [affects_nightly |-> IF c.affects_nightly THEN <<"Y", "e", "s">> ELSE <<"N", "o">>]
        ELSE <<>>)
    @@ (IF compare THEN [baseline_count |-> Grouped(IntText(c.baseline_count))] ELSE <<>>)
    @@ (IF compare /\ ~c.change_factor.inf
        THEN [change_factor |-> TenthsText(c.change_factor.tenths) \o <<"x">>] ELSE <<>>)

format_markdown(list, compare) == [n \in 1..Len(list) |-> MarkdownFields(list[n], compare)]

\* the entry dict of format_json_output and of format_ndjson, dumped
JsonFields(c, compare) ==
    [rank |-> IntText(c.rank),
     fingerprint |-> StrJson(c.fingerprint),
     count |-> IntText(c.count),
     crashes_per_day |-> TenthsText(c.crashes_per_day),
     classifier |-> StrJson(c.classifier),
     crash_type |-> StrJson(c.crash_type),
     code_origin |-> StrJson(c.code_origin),
     top_platform |-> StrJson(c.top_platform),
     top_version |-> StrJson(c.top_version),
     top_channel |-> StrJson(c.top_channel),
     affects_nightly |-> BoolJson(c.affects_nightly),
     is_new |-> BoolJson(c.is_new)]
    @@ (IF compare
        THEN [regression_badge |-> StrJson(c.regression_badge),
              change_factor |-> FloatJson(c.change_factor),
              baseline_count |-> IntText(c.baseline_count)]
        ELSE <<>>)

format_json_output(list, compare) == [n \in 1..Len(list) |-> JsonFields(list[n], compare)]

format_ndjson(list, compare) == [n \in 1..Len(list) |-> JsonFields(list[n], compare)]

\* one row of the DictWriter: str() of every value, "" for None
CsvFields(c, compare) ==
    [rank |-> IntText(c.rank),
     fingerprint |-> c.fingerprint,
     count |-> IntText(c.count),
     crashes_per_day |-> TenthsText(c.crashes_per_day),
     classifier |-> c.classifier,
     crash_type |-> c.crash_type,
     code_origin |-> c.code_origin,
     top_platform |-> IF c.top_platform = None THEN <<>> ELSE c.top_platform,
     top_version |-> IF c.top_version = None THEN <<>> ELSE c.top_version,
     top_channel |-> c.top_channel,
     affects_nightly |-> BoolStr(c.affects_nightly),
     is_new |-> BoolStr(c.is_new)]
    @@ (IF compare
        THEN [regression_badge |-> c.regression_badge,
              change_factor |-> FloatStr(c.change_factor),
              baseline_count |-> IntText(c.baseline_count)]
        ELSE <<>>)

format_csv_output(list, compare) == [n \in 1..Len(list) |-> CsvFields(list[n], compare)]

FmtStart ==
    /\ fmt_crashers = <<>>
    /\ compare_mode = FALSE
    /\ out_markdown = None
    /\ out_json = None
    /\ out_ndjson = None
    /\ out_csv = None

FmtInit ==
    /\ compare_mode \in BOOLEAN
    /\ fmt_crashers \in Reports(compare_mode)
    /\ out_markdown = None
    /\ out_json = None
    /\ out_ndjson = None
    /\ out_csv = None

FormatMarkdown ==
    /\ fmt_crashers # <<>>
    /\ out_markdown = None
    /\ out_markdown' = format_markdown(fmt_crashers, compare_mode)
    /\ UNCHANGED <<fmt_crashers, compare_mode, out_json, out_ndjson, out_csv>>
    /\ FmtFrame

FormatJson ==
    /\ fmt_crashers # <<>>
    /\ out_json = None
    /\ out_json' = format_json_output(fmt_crashers, compare_mode)
    /\ UNCHANGED <<fmt_crashers, compare_mode, out_markdown, out_ndjson, out_csv>>
    /\ FmtFrame

FormatNdjson ==
    /\ fmt_crashers # <<>>
    /\ out_ndjson = None
    /\ out_ndjson' = format_ndjson(fmt_crashers, compare_mode)
    /\ UNCHANGED <<fmt_crashers, compare_mode, out_markdown, out_json, out_csv>>
    /\ FmtFrame

FormatCsv ==
    /\ fmt_crashers # <<>>
    /\ out_csv = None
    /\ out_csv' = format_csv_output(fmt_crashers, compare_mode)
    /\ UNCHANGED <<fmt_crashers, compare_mode, out_markdown, out_json, out_ndjson>>
    /\ FmtFrame

FmtNext == FormatMarkdown \/ FormatJson \/ FormatNdjson \/ FormatCsv

(***************************************************************************)
(* check-upstream-flake.py: analyze_stats, analyze_verdicts and the body   *)
(* of the loop of main that picks one of them. A verdict count of the      *)
(* service is the text of a number; a flake rate is a fraction.            *)
(***************************************************************************)
\* the most stats groups drawn for a test
MaxStatsGroups == 2

CountKeys == {"passed", "failed", "flaky", "skipped", "executionErrored", "precluded"}

StatsGroups ==
    {[verdictCounts |-> [passed |-> <<"9">>]],
     [verdictCounts |-> [failed |-> <<"9">>]],
     [verdictCounts |-> [passed |-> <<"1", "9">>, failed |-> <<"1">>]],
     [verdictCounts |-> [passed |-> <<"9", "9">>, flaky |-> <<"1">>]],
     [verdictCounts |-> [passed |-> <<"1", "0", "0">>, failed |-> <<"1">>]],
     [verdictCounts |-> [passed |-> <<"9", "6">>, failed |-> <<"3">>, flaky |-> <<"2">>, skipped |-> <<"7">>]],
     [verdictCounts |-> [skipped |-> <<"5", "0">>, executionErrored |-> <<"3">>, precluded |-> <<"5">>]],
     [verdictCounts |-> EmptyDict]}

StatsLists == UNION {[1..n -> StatsGroups] : n \in 0..MaxStatsGroups}

\* mutant: the skipped verdicts of a group are not read
CountOf_NoSkipped(group, key) ==
    IF key \in DOMAIN group.verdictCounts /\ key # "skipped"
    THEN IntOf(group.verdictCounts[key]).val ELSE 0

\* int(vc.get(key, 0))
CountOf(group, key) ==
    IF key \in DOMAIN group.verdictCounts THEN IntOf(group.verdictCounts[key]).val ELSE 0

RECURSIVE Total(_, _)
Total(groups, key) ==
    IF groups = <<>> THEN 0 ELSE CountOf(Head(groups), key) + Total(Tail(groups), key)

\* mutant: every verdict enters the denominator
FlakeRate_OverAll(total_flaky, total_failed, meaningful_verdicts, total_verdicts) ==
    IF meaningful_verdicts > 0
    THEN [num |-> total_flaky + total_failed, den |-> total_verdicts]
    ELSE [num |-> 0, den |-> 1]

\* (total_flaky + total_failed) / meaningful_verdicts, or 0.0
FlakeRate(total_flaky, total_failed, meaningful_verdicts, total_verdicts) ==
    IF meaningful_verdicts > 0
    THEN [num |-> total_flaky + total_failed, den |-> meaningful_verdicts]
    ELSE [num |-> 0, den |-> 1]

\* flake_rate >= percent / 100
RateAtLeast(rate, percent) == 100 * rate.num >= percent * rate.den

\* mutant: the thresholds on the rate are tested before the count
VerdictOf_RateFirst(meaningful_verdicts, flake_rate) ==
    IF RateAtLeast(flake_rate, 5) THEN "known_upstream_flake"
    ELSE IF meaningful_verdicts < 10 THEN "insufficient_data"
    ELSE IF RateAtLeast(flake_rate, 1) THEN "occasional_upstream_failures"
    ELSE "stable_upstream"

\* the if/elif chain both analyze functions end with
VerdictOf(meaningful_verdicts, flake_rate) ==
    IF meaningful_verdicts < 10 THEN "insufficient_data"
    ELSE IF RateAtLeast(flake_rate, 5) THEN "known_upstream_flake"
    ELSE IF RateAtLeast(flake_rate, 1) THEN "occasional_upstream_failures"
    ELSE "stable_upstream"

\* the recommendation that the same chain sets next to the verdict
RecommendationOf(meaningful_verdicts, flake_rate) ==
    IF meaningful_verdicts < 10
    THEN "Cannot determine -- insufficient upstream data for this test in the lookback period."
    ELSE IF RateAtLeast(flake_rate, 5)
    THEN "Safe to filter -- this test has a confirmed flakiness pattern in Chromium upstream."
    ELSE IF RateAtLeast(flake_rate, 1)
    THEN "Consider filtering -- test shows some upstream instability. Document findings in filter comment."
    ELSE "Investigate Brave-specific causes -- test appears stable in Chromium upstream."

Summary(passed, failed, flaky, skipped, execution_errored, precluded, others) ==
    [total_verdicts |-> passed + failed + flaky + skipped + others,
     meaningful_verdicts |-> passed + failed + flaky,
     passed |-> passed, failed |-> failed, flaky |-> flaky, skipped |-> skipped,
     execution_errored |-> execution_errored, precluded |-> precluded,
     flake_rate |-> FlakeRate(flaky, failed, passed + failed + flaky,
                              passed + failed + flaky + skipped + others),
     verdict |-> VerdictOf(passed + failed + flaky,
                           FlakeRate(flaky, failed, passed + failed + flaky,
                                     passed + failed + flaky + skipped + others)),
     recommendation |->
         RecommendationOf(passed + failed + flaky,
                          FlakeRate(flaky, failed, passed + failed + flaky,
                                    passed + failed + flaky + skipped + others))]

analyze_stats(stats_groups) ==
    Summary(Total(stats_groups, "passed"), Total(stats_groups, "failed"),
            Total(stats_groups, "flaky"), Total(stats_groups, "skipped"),
            Total(stats_groups, "executionErrored"), Total(stats_groups, "precluded"),
            Total(stats_groups, "executionErrored") + Total(stats_groups, "precluded"))

\* the verdict lists: so many verdicts of each status, in this order
Statuses ==
    <<<<"P", "A", "S", "S", "E", "D">>, <<"f", "a", "i", "l", "e", "d">>, <<"F", "L", "A", "K", "Y">>, <<"S", "K", "I", "P", "P", "E", "D">>, <<"E", "X", "E", "C", "U", "T", "I", "O", "N", "_", "E", "R", "R", "O", "R", "E", "D">>>>

Times(status, n) == [i \in 1..n |-> [status |-> status]]

VerdictList(p, f, fl, s, o) ==
    Times(Statuses[1], p) \o Times(Statuses[2], f) \o Times(Statuses[3], fl)
        \o Times(Statuses[4], s) \o Times(Statuses[5], o)

VerdictLists ==
    {VerdictList(p, f, fl, so, so) :
        p \in {0, 9, 19, 99, 100}, f \in {0, 1, 9}, fl \in {0, 1}, so \in {0, 1}}

\* the number of verdicts whose status, upper-cased, is in the set
Having(list, statuses) ==
    Len(SelectSeq(list, LAMBDA v : Upper(v.status) \in statuses))

analyze_verdicts(list) ==
    LET passed  == Having(list, {<<"P", "A", "S", "S", "E", "D">>})
        failed  == Having(list, {<<"F", "A", "I", "L", "E", "D">>})
        flaky   == Having(list, {<<"F", "L", "A", "K", "Y">>})
        skipped == Having(list, {<<"S", "K", "I", "P", "P", "E", "D">>})
    IN  Summary(passed, failed, flaky, skipped, 0, 0,
                Len(list) - (passed + failed + flaky + skipped))

\* the dict main builds when neither query returned data
NoData ==
    [total_verdicts |-> 0, meaningful_verdicts |-> 0, passed |-> 0, failed |-> 0,
     flaky |-> 0, skipped |-> 0, execution_errored |-> 0, precluded |-> 0,
     flake_rate |-> [num |-> 0, den |-> 1], verdict |-> "insufficient_data",
     recommendation |->
         "Cannot determine -- no data found for this test ID in the lookback period."]

FaStart ==
    /\ stats = <<>>
    /\ verdicts = <<>>
    /\ analysis = None
    /\ fa_source = ""

FaInit ==
    /\ stats \in StatsLists
    /\ verdicts \in VerdictLists
    /\ analysis = None
    /\ fa_source = ""

\* one iteration of `for test_id in test_ids` (lines 551-577)
AnalyzeTest ==
    /\ fa_source = ""
    /\ IF stats # <<>>
       THEN analysis' = analyze_stats(stats) /\ fa_source' = "stats"
       ELSE IF verdicts # <<>>
            THEN analysis' = analyze_verdicts(verdicts) /\ fa_source' = "verdicts"
            ELSE analysis' = NoData /\ fa_source' = "none"
    /\ UNCHANGED <<stats, verdicts>>
    /\ FaFrame

FaNext == AnalyzeTest

(***************************************************************************)
(* check-upstream-flake.py: format_report_json, of which the overall       *)
(* verdict is kept. An analysis is its verdict here.                       *)
(***************************************************************************)
\* the most matched tests drawn
MaxMatched == 3

Verdicts ==
    {"known_upstream_flake", "occasional_upstream_failures", "insufficient_data",
     "stable_upstream"}

TestResults ==
    UNION {[1..n -> [test_id : TestIds, verdict : Verdicts]] : n \in 0..MaxMatched}

\* mutant: insufficient_data ranks behind stable_upstream
verdict_priority_StableFirst ==
    ("known_upstream_flake" :> 0) @@ ("occasional_upstream_failures" :> 1)
        @@ ("insufficient_data" :> 3) @@ ("stable_upstream" :> 2)

verdict_priority ==
    ("known_upstream_flake" :> 0) @@ ("occasional_upstream_failures" :> 1)
        @@ ("insufficient_data" :> 2) @@ ("stable_upstream" :> 3)

\* verdict_priority.get(t[1]["verdict"], 99)
PriorityOf(t) ==
    IF t.verdict \in DOMAIN verdict_priority THEN verdict_priority[t.verdict] ELSE 99

\* min(list, key): the first element whose key no other element undercuts
RECURSIVE MinByPriority(_, _)
MinByPriority(list, best) ==
    IF list = <<>> THEN best
    ELSE MinByPriority(Tail(list),
                       IF PriorityOf(Head(list)) < PriorityOf(best) THEN Head(list) ELSE best)

format_report_json(results) ==
    IF results # <<>>
    THEN MinByPriority(Tail(results), Head(results)).verdict
    ELSE "not_found"

RepStart ==
    /\ test_results = <<>>
    /\ overall_verdict = ""

RepInit ==
    /\ test_results \in TestResults
    /\ overall_verdict = ""

FormatReportJson ==
    /\ overall_verdict = ""
    /\ overall_verdict' = format_report_json(test_results)
    /\ UNCHANGED test_results
    /\ RepFrame

RepNext == FormatReportJson

(***************************************************************************)
(* check-upstream-flake.py: relevance_sort_key, the sort and the cut to    *)
(* five test identifiers in main.                                          *)
(***************************************************************************)
\* the most identifiers the search returns
MaxFound == 6

\* args.test_name
TestName == <<"T">>

\* the characters of the identifiers drawn, by ascending code point
CodePoints == <<".", "/", "T", "a", "b">>

CodePoint(c) == CHOOSE k \in 1..Len(CodePoints) : CodePoints[k] = c

\* the identifiers the service holds that contain the test name
MatchingIds ==
    {<<"a", "/", "T">>, <<"b", "/", "T">>, <<"T">>, <<"a", "T">>, <<"b", "T">>, <<"T", ".", "a">>, <<"T", "/", "b">>}

FoundLists ==
    UNION {{l \in [1..n -> MatchingIds] : \A i, j \in 1..n : l[i] = l[j] => i = j} :
           n \in 0..MaxFound}

\* str.endswith
EndsWith(s, suffix) ==
    Len(s) >= Len(suffix) /\ SubSeq(s, Len(s) - Len(suffix) + 1, Len(s)) = suffix

\* a < b for two str, as Python compares them
RECURSIVE StrLess(_, _)
StrLess(a, b) ==
    IF b = <<>> THEN FALSE
    ELSE IF a = <<>> THEN TRUE
    ELSE IF Head(a) = Head(b) THEN StrLess(Tail(a), Tail(b))
    ELSE CodePoint(Head(a)) < CodePoint(Head(b))

\* mutant: the "/" before the test name is not looked at
relevance_sort_key_AnySuffix(tid) ==
    IF EndsWith(tid, TestName) THEN <<1, tid>> ELSE <<2, tid>>

relevance_sort_key(tid) ==
    IF EndsWith(tid, <<"/">> \o TestName) THEN <<0, tid>>
    ELSE IF EndsWith(tid, TestName) THEN <<1, tid>>
    ELSE <<2, tid>>

\* a < b for two (int, str) tuples
RelevanceLess(a, b) == a[1] < b[1] \/ (a[1] = b[1] /\ StrLess(a[2], b[2]))

\* list.sort(key=relevance_sort_key), a stable sort
RECURSIVE InsertByRelevance(_, _)
InsertByRelevance(x, sorted) ==
    IF sorted = <<>> THEN <<x>>
    ELSE IF RelevanceLess(relevance_sort_key(x), relevance_sort_key(Head(sorted)))
         THEN <<x>> \o sorted
         ELSE <<Head(sorted)>> \o InsertByRelevance(x, Tail(sorted))

RECURSIVE SortByRelevance(_, _)
SortByRelevance(list, sorted) ==
    IF list = <<>> THEN sorted
    ELSE SortByRelevance(Tail(list), InsertByRelevance(Head(list), sorted))

\* test_ids.sort(key=relevance_sort_key); test_ids = test_ids[:5]
TopMatches(list) ==
    LET sorted == SortByRelevance(list, <<>>)
    IN  SubSeq(sorted, 1, Min2(5, Len(sorted)))

RkStart ==
    /\ found_ids = <<>>
    /\ test_ids = <<>>
    /\ rk_done = FALSE

RkInit ==
    /\ found_ids \in FoundLists
    /\ test_ids = <<>>
    /\ rk_done = FALSE

\* lines 536-547 of main
RankMatches ==
    /\ ~rk_done
    /\ test_ids' = TopMatches(found_ids)
    /\ rk_done' = TRUE
    /\ UNCHANGED found_ids
    /\ RkFrame

RkNext == RankMatches

(***************************************************************************)
(* check-upstream-flake.py: main from the result of search_tests to the    *)
(* exit. fc_requests and fc_outcomes are the history of the pagination     *)
(* loop that runs or has run last; get_flakiness_stats and                 *)
(* get_test_verdicts page through QueryStats and Query as search_tests     *)
(* pages through QueryTests.                                               *)
(***************************************************************************)
ErrorOutcomes ==
    {[kind |-> "urlerror", code |-> 0, raw |-> <<>>],
     [kind |-> "http", code |-> 500, raw |-> <<>>],
     [kind |-> "ok", code |-> 200, raw |-> <<XssiLine, GarbageLine>>]}

\* the command lines of a whole run
RunArgv == {argv \in FlakeArgv : argv.days \in {None, <<"9", "1">>, <<"a", "b", "c">>}}

\* the answers to QueryTests
TestsOutcomes ==
    {[kind |-> "ok", code |-> 200, raw |-> <<XssiLine, JsonLine(r)>>] :
        r \in QueryTestsResults}
      \cup ErrorOutcomes

\* the answers to QueryStats
StatsOutcomes ==
    {[kind |-> "ok", code |-> 200,
      raw |-> <<XssiLine, JsonLine([groups |-> gs, nextPageToken |-> t])>>] :
        gs \in {<<>>, <<[verdictCounts |-> [passed |-> <<"9">>, failed |-> <<"1">>]]>>},
        t \in Tokens}
      \cup ErrorOutcomes

\* the answers to Query
VerdictOutcomes ==
    {[kind |-> "ok", code |-> 200,
      raw |-> <<XssiLine, JsonLine([verdicts |-> vs, nextPageToken |-> t])>>] :
        vs \in {<<>>, VerdictList(4, 0, 1, 1, 0)},
        t \in Tokens}
      \cup ErrorOutcomes

\* the service serves at most MaxPages pages of a list, the last of them
\* without a continuation token
ServedBy(o) ==
    (o.kind = "ok" /\ Len(fc_requests) + 1 >= MaxPages /\ JsonLoads(StripXssi(o.raw)).ok)
        => JsonLoads(StripXssi(o.raw)).doc.nextPageToken = ""

\* a pagination loop is entered: page_token = None
LoopEntered ==
    /\ page_token' = ""
    /\ fc_requests' = <<>>
    /\ fc_outcomes' = <<>>

FnStart ==
    /\ run_test_ids = <<>>
    /\ fn_index = 0
    /\ all_groups = <<>>
    /\ all_verdicts = <<>>
    /\ run_results = <<>>
    /\ fn_printed = ""

\* the not-found report and exit, or the sort, the cut and the first call
\* of get_flakiness_stats (lines 526-552)
FcMatch ==
    /\ fc_pc = "searched"
    /\ IF all_test_ids = <<>>
       THEN /\ fn_printed' = "not_found"
            /\ fc_pc' = "exit"
            /\ fc_rc' = 2
            /\ UNCHANGED <<run_test_ids, fn_index, page_token, fc_requests, fc_outcomes>>
       ELSE /\ run_test_ids' = TopMatches(all_test_ids)
            /\ fn_index' = 1
            /\ fc_pc' = "stats"
            /\ LoopEntered
            /\ UNCHANGED <<fn_printed, fc_rc>>
    /\ UNCHANGED <<all_test_ids, fc_attempts, fc_days, all_groups, all_verdicts, run_results>>
    /\ FnFrame

\* one iteration of the loop of get_flakiness_stats
FcQueryStats(o) ==
    /\ fc_pc = "stats"
    /\ ServedBy(o)
    /\ fc_requests' = Append(fc_requests, page_token)
    /\ fc_outcomes' = Append(fc_outcomes, o)
    /\ fc_attempts' = 1
    /\ LET r == prpc_request(o)
       IN  IF r.exit
           THEN /\ fc_pc' = "exit"
                /\ fc_rc' = r.rc
                /\ UNCHANGED <<all_groups, page_token>>
           ELSE /\ all_groups' = all_groups \o r.result.groups
                /\ page_token' = NextPageToken(r.result)
                /\ fc_pc' = IF NextPageToken(r.result) = "" THEN "stats_done" ELSE "stats"
                /\ UNCHANGED fc_rc
    /\ UNCHANGED <<all_test_ids, fc_days, run_test_ids, fn_index, all_verdicts, run_results,
                   fn_printed>>
    /\ FnFrame

\* test_results.append((test_id, analysis)) and the next round of the loop
\* over test_ids, or the end of the loop
NextTest(verdict) ==
    /\ run_results' = Append(run_results,
                             [test_id |-> run_test_ids[fn_index], verdict |-> verdict])
    /\ IF fn_index < Len(run_test_ids)
       THEN /\ fn_index' = fn_index + 1
            /\ fc_pc' = "stats"
            /\ all_groups' = <<>>
            /\ all_verdicts' = <<>>
            /\ LoopEntered
       ELSE /\ fc_pc' = "report"
            /\ UNCHANGED <<fn_index, all_groups, all_verdicts, page_token, fc_requests,
                           fc_outcomes>>

\* `if stats:` analyze_stats, else the call of get_test_verdicts
FcAnalyzeStats ==
    /\ fc_pc = "stats_done"
    /\ IF all_groups # <<>>
       THEN NextTest(analyze_stats(all_groups).verdict)
       ELSE /\ fc_pc' = "verdicts"
            /\ LoopEntered
            /\ UNCHANGED <<run_results, fn_index, all_groups, all_verdicts>>
    /\ UNCHANGED <<all_test_ids, fc_rc, fc_attempts, fc_days, run_test_ids, fn_printed>>
    /\ FnFrame

\* one iteration of the loop of get_test_verdicts
FcQueryVerdicts(o) ==
    /\ fc_pc = "verdicts"
    /\ ServedBy(o)
    /\ fc_requests' = Append(fc_requests, page_token)
    /\ fc_outcomes' = Append(fc_outcomes, o)
    /\ fc_attempts' = 1
    /\ LET r == prpc_request(o)
       IN  IF r.exit
           THEN /\ fc_pc' = "exit"
                /\ fc_rc' = r.rc
                /\ UNCHANGED <<all_verdicts, page_token>>
           ELSE /\ all_verdicts' = all_verdicts \o r.result.verdicts
                /\ page_token' = NextPageToken(r.result)
                /\ fc_pc' = IF NextPageToken(r.result) = "" THEN "verdicts_done"
                            ELSE "verdicts"
                /\ UNCHANGED fc_rc
    /\ UNCHANGED <<all_test_ids, fc_days, run_test_ids, fn_index, all_groups, run_results,
                   fn_printed>>
    /\ FnFrame

\* `if verdicts:` analyze_verdicts, else the no-data dict
FcAnalyzeVerdicts ==
    /\ fc_pc = "verdicts_done"
    /\ NextTest(IF all_verdicts # <<>> THEN analyze_verdicts(all_verdicts).verdict
                ELSE NoData.verdict)
    /\ UNCHANGED <<all_test_ids, fc_rc, fc_attempts, fc_days, run_test_ids, fn_printed>>
    /\ FnFrame

\* the report and sys.exit(0) (lines 581-587)
FcReport ==
    /\ fc_pc = "report"
    /\ fn_printed' = "report"
    /\ fc_pc' = "exit"
    /\ fc_rc' = 0
    /\ UNCHANGED <<all_test_ids, page_token, fc_requests, fc_outcomes, fc_attempts, fc_days,
                   run_test_ids, fn_index, all_groups, all_verdicts, run_results>>
    /\ FnFrame

FlakeNext ==
    \/ \E argv \in RunArgv : FcValidate(argv)
    \/ \E o \in TestsOutcomes : QueryTests(o)
    \/ FcMatch
    \/ \E o \in StatsOutcomes : FcQueryStats(o)
    \/ FcAnalyzeStats
    \/ \E o \in VerdictOutcomes : FcQueryVerdicts(o)
    \/ FcAnalyzeVerdicts
    \/ FcReport

(***************************************************************************)
(* top-crashers.py: parse_response applied to the responses of a given     *)
(* shape whose platform fold is any list of at most MaxPairs items.        *)
(***************************************************************************)
MaxPairs == 2

PairItems ==
    {Pair("Windows", n) : n \in 0..2} \cup {Pair("Linux", n) : n \in 1..2} \cup {NoPair}

PairLists == UNION {[1..n -> PairItems] : n \in 0..MaxPairs}

WithPairs(e, pairs) == [e EXCEPT !.platform_pairs = pairs]

\* the `values` lists around one platform fold
ValuesWith(pairs) ==
    {<<>>,
     <<WithPairs(Entry("f1", "group"), pairs)>>,
     <<WithPairs(Entry("f1", "group"), pairs), Entry("f2", "group")>>,
     <<WithPairs(Entry("f2", "group"), pairs), Entry("", "not_list"),
       WithPairs(Entry("f1", "group"), pairs)>>,
     <<Entry("f1", "short_folds"), WithPairs(Entry("f2", "group"), pairs)>>}

MinCounts == {0, 1, 2, 6}

PrStart ==
    /\ pr_values = <<>>
    /\ pr_min_count = 0
    /\ pr_crashers = <<>>
    /\ pr_done = FALSE

PrInit ==
    /\ pr_values \in UNION {ValuesWith(pairs) : pairs \in PairLists}
    /\ pr_min_count = 0
    /\ pr_crashers = <<>>
    /\ pr_done = FALSE

ParseResponse(min_count) ==
    /\ ~pr_done
    /\ pr_min_count' = min_count
    /\ pr_crashers' = parse_response(pr_values, 7, 10, min_count, 0).crashers
    /\ pr_done' = TRUE
    /\ UNCHANGED pr_values
    /\ PrFrame

PrNext == \E min_count \in MinCounts : ParseResponse(min_count)

(***************************************************************************)
(* top-crashers.py: build_channel_breakdown applied to the maps that       *)
(* fetch_channel_versions returns.                                         *)
(***************************************************************************)
VersionStrings ==
    {<<"146", "1", "87", "1">>, <<"146", "1", "88", "2">>, <<"146", "1", "89", "3">>,
     <<"146", "1", "90", "5">>, <<"j", "u">>}

\* the version histograms of distinct versions
Histograms ==
    UNION {{h \in [1..n -> [key : VersionStrings, value : {1, 2}]] :
               \A i, j \in 1..n : h[i].key = h[j].key => i = j} : n \in 0..MaxVersions}

CbStart ==
    /\ version_hist = <<>>
    /\ channel_versions = <<>>
    /\ cb_result = [raised |-> "", breakdown |-> [nightly |-> 0, beta |-> 0, release |-> 0, older |-> 0]]
    /\ cb_done = FALSE

CbInit ==
    /\ version_hist \in Histograms
    /\ channel_versions = <<>>
    /\ cb_result = [raised |-> "", breakdown |-> [nightly |-> 0, beta |-> 0, release |-> 0, older |-> 0]]
    /\ cb_done = FALSE

\* main, line 1401
FetchChannelVersions(page) ==
    /\ ~cb_done
    /\ channel_versions = <<>>
    /\ channel_versions' = fetch_channel_versions(page)
    /\ UNCHANGED <<version_hist, cb_result, cb_done>>
    /\ CbFrame

\* parse_response, lines 798-807
BuildChannelBreakdown ==
    /\ ~cb_done
    /\ channel_versions # <<>>
    /\ cb_result' = build_channel_breakdown(version_hist, channel_versions)
    /\ cb_done' = TRUE
    /\ UNCHANGED <<version_hist, channel_versions>>
    /\ CbFrame

CbNext ==
    \/ \E page \in WikiPages : FetchChannelVersions(page)
    \/ BuildChannelBreakdown

(***************************************************************************)
(* top-crashers.py: main from the parsed windows to the ranks (lines       *)
(* 1422-1474), applied to windows of up to MaxReported groups.             *)
(***************************************************************************)
MaxReported == 3

\* f1: 5 dumps in Brave code, new, on nightly; f2: 3 crashes in Chromium
\* code, seen before the window, on release; f3: 5 crashes in Brave code,
\* new, on release
FinEntries ==
    {Entry("f1", "group"),
     [Entry("f2", "group") EXCEPT !.count = 3],
     [Entry("f1", "group") EXCEPT !.fingerprint = "f3",
                                  !.classifier = <<"s", "e", "g", "v">>,
                                  !.ts_data = <<11 * Day>>,
                                  !.version_pairs = <<Pair(<<"146", "1", "87", "1">>, 5)>>]}

FinValues ==
    UNION {{v \in [1..n -> FinEntries] : \A i, j \in 1..n : v[i] = v[j] => i = j} :
           n \in 0..MaxReported}

\* the recent window: seven days that begin on day 5
FinWindows == {parse_response(v, 7, 8, 0, 5 * Day).crashers : v \in FinValues}

\* the baseline window: the seven days before
FinBaselines ==
    {parse_response(v, 7, 8, 0, 0).crashers :
        v \in {<<>>, <<[Entry("f2", "group") EXCEPT !.count = 3]>>,
               <<Entry("f1", "group"), [Entry("f2", "group") EXCEPT !.count = 1]>>}}

FinArgs ==
    {[DefaultArgs EXCEPT !.compare = c, !.limit = l, !.new_only = n, !.crashes_only = co,
                         !.brave_only = b, !.order = o, !.channels = ch] :
        c \in {0, 2}, l \in {1, 2}, n \in BOOLEAN, co \in BOOLEAN, b \in BOOLEAN,
        o \in Orders, ch \in ChannelLists}

FinStart ==
    /\ fin_recent = <<>>
    /\ fin_baseline = <<>>
    /\ fin_args = DefaultArgs
    /\ fin_sorted = <<>>
    /\ fin_out = <<>>
    /\ fin_done = FALSE

FinInit ==
    /\ fin_recent \in FinWindows
    /\ fin_baseline \in FinBaselines
    /\ fin_args = DefaultArgs
    /\ fin_sorted = <<>>
    /\ fin_out = <<>>
    /\ fin_done = FALSE

\* lines 1422-1474 of main: the baseline is queried in compare mode only
FinishReport(a) ==
    /\ ~fin_done
    /\ a.compare = 0 => fin_baseline = <<>>
    /\ fin_args' = a
    /\ fin_sorted' = Ordered(IF a.compare # 0
                             THEN Compared(fin_recent, fin_baseline, a.limit)
                             ELSE fin_recent, a)
    /\ fin_out' = Reranked(PostFiltered(fin_sorted', a))
    /\ fin_done' = TRUE
    /\ UNCHANGED <<fin_recent, fin_baseline>>
    /\ FinFrame

FinNext == \E a \in FinArgs : FinishReport(a)

(***************************************************************************)
(* check-upstream-flake.py: analyze_stats and analyze_verdicts on the same *)
(* data: the verdicts one by one, and their counts in one stat group or    *)
(* split over two.                                                         *)
(***************************************************************************)
PassedCounts == {0, 5, 9, 19, 99, 100, 200}

FewCounts == {0, 1, 2}

\* a stat group of these counts; a count of 0 is left out of verdictCounts
GroupOf(p, f, k, s) ==
    LET count == [key \in {"passed", "failed", "flaky", "skipped"} |->
                     IF key = "passed" THEN p ELSE IF key = "failed" THEN f
                     ELSE IF key = "flaky" THEN k ELSE s]
    IN  [verdictCounts |-> [key \in {x \in DOMAIN count : count[x] > 0} |->
                               IntText(count[key])]]

Groupings(p, f, k, s) ==
    {<<GroupOf(p, f, k, s)>>}
        \cup {<<GroupOf(p1, f1, k1, s1), GroupOf(p - p1, f - f1, k - k1, s - s1)>> :
                 p1 \in {0, p \div 2}, f1 \in {0, f}, k1 \in {0, k \div 2}, s1 \in {0, 1} \cap 0..s}

EqStart ==
    /\ eq_groups = <<>>
    /\ eq_verdicts = <<>>
    /\ by_stats = None
    /\ by_verdicts = None

EqInit ==
    /\ \E p \in PassedCounts, f \in FewCounts, k \in FewCounts, s \in FewCounts :
          /\ eq_verdicts = VerdictList(p, f, k, s, 0)
          /\ eq_groups \in Groupings(p, f, k, s)
    /\ by_stats = None
    /\ by_verdicts = None

EqAnalyzeStats ==
    /\ by_stats = None
    /\ by_stats' = <<analyze_stats(eq_groups)>>
    /\ UNCHANGED <<eq_groups, eq_verdicts, by_verdicts>>
    /\ EqFrame

EqAnalyzeVerdicts ==
    /\ by_verdicts = None
    /\ by_verdicts' = <<analyze_verdicts(eq_verdicts)>>
    /\ UNCHANGED <<eq_groups, eq_verdicts, by_stats>>
    /\ EqFrame

EqNext == EqAnalyzeStats \/ EqAnalyzeVerdicts

(***************************************************************************)
(* top-crashers.py: sanitize_frame. A frame is a string, or a value that   *)
(* is no string and is given by the text of its str().                     *)
(***************************************************************************)
MAX_FRAME_LENGTH == 200

\* a pattern of PII_PATH_PATTERNS: a literal, then a run of one character
\* or more that are neither white space nor the separator; in the pattern
\* of /var a run of any length and a "/" come in between
PII_PATH_PATTERNS ==
    <<[literal |-> <<"/", "U", "s", "e", "r", "s", "/">>, sep |-> "/", dir |-> FALSE],
      [literal |-> <<"/", "h", "o", "m", "e", "/">>, sep |-> "/", dir |-> FALSE],
      [literal |-> <<"C", ":", "\\", "U", "s", "e", "r", "s", "\\">>, sep |-> "\\", dir |-> FALSE],
      [literal |-> <<"/", "v", "a", "r", "/">>, sep |-> "/", dir |-> TRUE]>>

WhiteSpace == {" ", "\t", "\n"}

\* the last index of the run of [^\s<sep>] that begins at i, i - 1 when empty
RunEnd(text, i, sep) ==
    LET ends == {j \in i..Len(text) : text[j] \in WhiteSpace \/ text[j] = sep}
    IN  IF ends = {} THEN Len(text)
        ELSE (CHOOSE j \in ends : \A k \in ends : j <= k) - 1

\* the last index of the match of the pattern that begins at i, 0 when the
\* pattern does not match there
MatchEnd(text, i, pattern) ==
    LET after == i + Len(pattern.literal)
    IN  IF after - 1 > Len(text) \/ SubSeq(text, i, after - 1) # pattern.literal THEN 0
        ELSE IF ~pattern.dir
        THEN (IF RunEnd(text, after, pattern.sep) >= after
              THEN RunEnd(text, after, pattern.sep) ELSE 0)
        ELSE LET slash == RunEnd(text, after, pattern.sep) + 1
             IN  IF slash <= Len(text) /\ text[slash] = "/"
                    /\ RunEnd(text, slash + 1, pattern.sep) >= slash + 1
                 THEN RunEnd(text, slash + 1, pattern.sep) ELSE 0

\* pattern.sub("<path>", frame), from index i on: the leftmost match is
\* replaced, and the search goes on behind it
RECURSIVE Sub(_, _, _)
Sub(text, i, pattern) ==
    LET starts == {j \in i..Len(text) : MatchEnd(text, j, pattern) # 0}
    IN  IF starts = {} THEN SubSeq(text, i, Len(text))
        ELSE LET first == CHOOSE j \in starts : \A k \in starts : j <= k
             IN  SubSeq(text, i, first - 1) \o <<"<", "p", "a", "t", "h", ">">>
                     \o Sub(text, MatchEnd(text, first, pattern) + 1, pattern)

RECURSIVE Stripped(_, _)
Stripped(text, n) ==
    IF n > Len(PII_PATH_PATTERNS) THEN text
    ELSE Stripped(Sub(text, 1, PII_PATH_PATTERNS[n]), n + 1)

sanitize_frame(frame) ==
    IF ~frame.is_str
    THEN SubSeq(frame.text, 1, Min2(MAX_FRAME_LENGTH, Len(frame.text)))
    ELSE LET stripped == Stripped(frame.text, 1)
         IN  IF Len(stripped) > MAX_FRAME_LENGTH
             THEN SubSeq(stripped, 1, MAX_FRAME_LENGTH) \o <<".", ".", ".">>
             ELSE stripped

\* the frames: so many times "a", then one of the tails
FrameLengths == {0, 1, 150} \cup 190..202

FrameTails ==
    {<<>>, <<"/", "h", "o", "m", "e", "/", "b", "o", "b">>, <<"/", "U", "s", "e", "r", "s", "/", "a", "l", "/", "x">>, <<"C", ":", "\\", "U", "s", "e", "r", "s", "\\", "a", "l">>,
     <<"/", "v", "a", "r", "/", "d", "b", "/", "x", " ", "y">>, <<" ", "/", "h", "o", "m", "e", "/">>}

Frames ==
    {[is_str |-> s, text |-> [i \in 1..n |-> "a"] \o tail] :
        s \in BOOLEAN, n \in FrameLengths, tail \in FrameTails}

SfStart ==
    /\ sf_frame = [is_str |-> TRUE, text |-> <<>>]
    /\ sf_out = <<>>
    /\ sf_done = FALSE

SfInit ==
    /\ sf_frame \in Frames
    /\ sf_out = <<>>
    /\ sf_done = FALSE

SanitizeFrame ==
    /\ ~sf_done
    /\ sf_out' = sanitize_frame(sf_frame)
    /\ sf_done' = TRUE
    /\ UNCHANGED sf_frame
    /\ SfFrame

SfNext == SanitizeFrame

Init == IdsInit /\ BqInit /\ FcInit /\ CwStart /\ CtStart /\ CoStart
     /\ FmStart /\ TcOff /\ FmtStart /\ FaStart /\ RepStart /\ RkStart
     /\ FnStart /\ PrStart /\ CbStart /\ FinStart /\ EqStart /\ SfStart

InitCw == IdsInit /\ BqInit /\ FcInit /\ CwInit /\ CtStart /\ CoStart
       /\ FmStart /\ TcOff /\ FmtStart /\ FaStart /\ RepStart /\ RkStart
       /\ FnStart /\ PrStart /\ CbStart /\ FinStart /\ EqStart /\ SfStart

InitCt == IdsInit /\ BqInit /\ FcInit /\ CwStart /\ CtInit /\ CoStart
       /\ FmStart /\ TcOff /\ FmtStart /\ FaStart /\ RepStart /\ RkStart
       /\ FnStart /\ PrStart /\ CbStart /\ FinStart /\ EqStart /\ SfStart

InitCo == IdsInit /\ BqInit /\ FcInit /\ CwStart /\ CtStart /\ CoInit
       /\ FmStart /\ TcOff /\ FmtStart /\ FaStart /\ RepStart /\ RkStart
       /\ FnStart /\ PrStart /\ CbStart /\ FinStart /\ EqStart /\ SfStart

InitFmt == IdsInit /\ BqInit /\ FcInit /\ CwStart /\ CtStart /\ CoStart
        /\ FmStart /\ TcOff /\ FmtInit /\ FaStart /\ RepStart /\ RkStart
        /\ FnStart /\ PrStart /\ CbStart /\ FinStart /\ EqStart /\ SfStart

InitFa == IdsInit /\ BqInit /\ FcInit /\ CwStart /\ CtStart /\ CoStart
       /\ FmStart /\ TcOff /\ FmtStart /\ FaInit /\ RepStart /\ RkStart
       /\ FnStart /\ PrStart /\ CbStart /\ FinStart /\ EqStart /\ SfStart

InitRep == IdsInit /\ BqInit /\ FcInit /\ CwStart /\ CtStart /\ CoStart
        /\ FmStart /\ TcOff /\ FmtStart /\ FaStart /\ RepInit /\ RkStart
        /\ FnStart /\ PrStart /\ CbStart /\ FinStart /\ EqStart /\ SfStart

InitRk == IdsInit /\ BqInit /\ FcInit /\ CwStart /\ CtStart /\ CoStart
       /\ FmStart /\ TcOff /\ FmtStart /\ FaStart /\ RepStart /\ RkInit
       /\ FnStart /\ PrStart /\ CbStart /\ FinStart /\ EqStart /\ SfStart

InitPr == IdsInit /\ BqInit /\ FcInit /\ CwStart /\ CtStart /\ CoStart
       /\ FmStart /\ TcOff /\ FmtStart /\ FaStart /\ RepStart /\ RkStart
       /\ FnStart /\ PrInit /\ CbStart /\ FinStart /\ EqStart /\ SfStart

InitCb == IdsInit /\ BqInit /\ FcInit /\ CwStart /\ CtStart /\ CoStart
       /\ FmStart /\ TcOff /\ FmtStart /\ FaStart /\ RepStart /\ RkStart
       /\ FnStart /\ PrStart /\ CbInit /\ FinStart /\ EqStart /\ SfStart

InitFin == IdsInit /\ BqInit /\ FcInit /\ CwStart /\ CtStart /\ CoStart
        /\ FmStart /\ TcOff /\ FmtStart /\ FaStart /\ RepStart /\ RkStart
        /\ FnStart /\ PrStart /\ CbStart /\ FinInit /\ EqStart /\ SfStart

InitEq == IdsInit /\ BqInit /\ FcInit /\ CwStart /\ CtStart /\ CoStart
       /\ FmStart /\ TcOff /\ FmtStart /\ FaStart /\ RepStart /\ RkStart
       /\ FnStart /\ PrStart /\ CbStart /\ FinStart /\ EqInit /\ SfStart

InitSf == IdsInit /\ BqInit /\ FcInit /\ CwStart /\ CtStart /\ CoStart
       /\ FmStart /\ TcOff /\ FmtStart /\ FaStart /\ RepStart /\ RkStart
       /\ FnStart /\ PrStart /\ CbStart /\ FinStart /\ EqStart /\ SfInit

InitCli == IdsInit /\ BqIdle /\ CwStart /\ CtStart /\ CoStart /\ CliInit
        /\ FmtStart /\ FaStart /\ RepStart /\ RkStart /\ FnStart /\ PrStart
        /\ CbStart /\ FinStart /\ EqStart /\ SfStart

InitFlake == IdsInit /\ BqInit /\ FcMainInit /\ CwStart /\ CtStart
          /\ CoStart /\ TcOff /\ FmtStart /\ FaStart /\ RepStart /\ RkStart
          /\ FnStart /\ PrStart /\ CbStart /\ FinStart /\ EqStart /\ SfStart

SpecIds == Init /\ [][IdsNext]_vars

SpecCw == InitCw /\ [][CwNext]_vars

SpecFc == Init /\ [][FcNext]_vars

\* a urlopen() call ends (REQUEST_TIMEOUT) and so does a sleep
SpecBq == Init /\ [][BqNext]_vars /\ WF_vars(BqNext)

SpecCt == InitCt /\ [][CtNext]_vars

SpecCo == InitCo /\ [][CoNext]_vars

\* every urlopen() call and every sleep ends
SpecCli == InitCli /\ [][CliNext]_vars /\ WF_vars(CliNext)

SpecFmt == InitFmt /\ [][FmtNext]_vars

SpecFa == InitFa /\ [][FaNext]_vars

SpecRep == InitRep /\ [][RepNext]_vars

SpecRk == InitRk /\ [][RkNext]_vars

\* every urlopen() call ends: it is given timeout=30
SpecFlake == InitFlake /\ [][FlakeNext]_vars /\ WF_vars(FlakeNext)

SpecPr == InitPr /\ [][PrNext]_vars

SpecCb == InitCb /\ [][CbNext]_vars

SpecFin == InitFin /\ [][FinNext]_vars

SpecEq == InitEq /\ [][EqNext]_vars

SpecSf == InitSf /\ [][SfNext]_vars

(***************************************************************************)
(* Claims about the anchor-ID manager (checked under SpecIds).             *)
(***************************************************************************)
\* the sequence number of an identifier of a prefix
SeqNo(id, prefix) == IntOf(SubSeq(id, Len(prefix) + 2, Len(id))).val

HasPrefix(id, prefix) == StartsWith(id, prefix \o <<"-">>)

\* C1: across --assign runs interleaved with manual deletions of headings
\* together with their anchors, the sequence number of every identifier a
\* run newly assigns is strictly greater than every number an earlier run
\* assigned for the same prefix (no number is handed out twice).
C1_NeverReused ==
    \A n \in new_ids, o \in issued :
        \A md \in DOMAIN DOC_PREFIXES :
            (HasPrefix(n, DOC_PREFIXES[md]) /\ HasPrefix(o, DOC_PREFIXES[md]))
                => SeqNo(n, DOC_PREFIXES[md]) > SeqNo(o, DOC_PREFIXES[md])

\* the places (file number, line number) of a kind of line in a document set
Places(d, kind) ==
    UNION {{<<k, i>> : i \in {j \in 1..Len(d[DocFiles[k]]) : d[DocFiles[k]][j].k = kind}} :
              k \in 1..Len(DocFiles)}

LineAt(d, p) == d[DocFiles[p[1]]][p[2]]

\* the heading at place p directly follows an anchor tag (blank lines apart)
AnchorOf(d, p) ==
    {j \in 1..(p[2] - 1) :
        /\ d[DocFiles[p[1]]][j].k = "anchor"
        /\ \A m \in (j + 1)..(p[2] - 1) : d[DocFiles[p[1]]][m].k = "blank"}

Earlier(p, q) == p[1] < q[1] \/ (p[1] = q[1] /\ p[2] < q[2])

\* headings with no anchor tag as their nearest preceding non-blank line
MissingPlaces(d) == {p \in Places(d, "heading") : AnchorOf(d, p) = {}}

CarriedId(d, p) == d[DocFiles[p[1]]][CHOOSE j \in AnchorOf(d, p) : TRUE].v

\* headings whose identifier an earlier heading already carries
RepeatPlaces(d) ==
    {p \in Places(d, "heading") \ MissingPlaces(d) :
        \E q \in Places(d, "heading") \ MissingPlaces(d) :
            Earlier(q, p) /\ CarriedId(d, q) = CarriedId(d, p)}

UnmappedMissing(d) == {p \in MissingPlaces(d) : DocFiles[p[1]] \notin DOMAIN DOC_PREFIXES}

\* C2 as stated: a second --assign run in a row changes nothing, and a
\* --validate run after it returns 0 with zero errors, for every document
\* set, also one with a markdown file that has no prefix mapping.
C2_AssignTwiceThenValid ==
    /\ (cmd = "assign" /\ runs = 2) =>
            (total_added = 0 /\ written = {} /\ new_ids = {} /\ docs = before)
    /\ (cmd = "validate" /\ runs = 2) => (rc = 0 /\ errors = <<>>)

\* C2 as amended: a second --assign run in a row changes nothing; a
\* --validate run after it reports no missing identifier in a file that has
\* a prefix mapping, and returns 0 exactly when every heading of the files
\* without a prefix mapping has an anchor and no two headings carry the
\* same identifier.
C2_AssignTwiceIdempotent ==
    /\ (cmd = "assign" /\ runs = 2) =>
            (total_added = 0 /\ written = {} /\ new_ids = {} /\ docs = before)
    /\ (cmd = "validate" /\ runs = 2) =>
            /\ \A n \in 1..Len(errors) :
                    \/ errors[n].kind = "DUPLICATE ID"
                    \/ errors[n].file \notin DOMAIN DOC_PREFIXES
            /\ rc = 0 <=> (UnmappedMissing(docs) = {} /\ RepeatPlaces(docs) = {})

C2_Witness ==
    /\ cmd = "validate"
    /\ runs = 2
    /\ rc = 0
    /\ issued # {FirstId}

\* C3: starting from a document set in which no identifier is carried by two
\* anchors, after an --assign run no identifier is carried by two anchors,
\* in one document or in two, whether or not the anchors that were there
\* before sit directly before a heading.
AnchorsDistinct(d) ==
    \A p, q \in Places(d, "anchor") : LineAt(d, p).v = LineAt(d, q).v => p = q

C3_IdsUnique == (cmd = "assign" /\ AnchorsDistinct(before)) => AnchorsDistinct(docs)

\* new is old with an anchor block put before the headings that had no
\* anchor: an optional blank line (only after a non-blank line), an anchor
\* line with an identifier of this run, a blank line
RECURSIVE OnlyAnchorsInserted(_, _, _, _)
OnlyAnchorsInserted(old, new, i, j) ==
    IF i > Len(old) THEN j = Len(new) + 1
    ELSE IF HEADING_RE(old[i]) /\ ExistingId(old, i) = None
         THEN LET b == IF j > 1 /\ j <= Len(new) /\ ~IsBlank(new[j - 1]) THEN 1 ELSE 0
              IN  /\ j + b + 2 <= Len(new)
                  /\ b = 1 => new[j] = Blank
                  /\ ANCHOR_RE(new[j + b])
                  /\ new[j + b].v \in new_ids
                  /\ new[j + b + 1] = Blank
                  /\ new[j + b + 2] = old[i]
                  /\ OnlyAnchorsInserted(old, new, i + 1, j + b + 3)
         ELSE /\ j <= Len(new)
              /\ new[j] = old[i]
              /\ OnlyAnchorsInserted(old, new, i + 1, j + 1)

\* C4: cmd_assign never removes, changes or renumbers an identifier: every
\* (heading, identifier) pair parse_doc yields before a run is yielded
\* unchanged after it, and the lines of the documents after the run are the
\* lines before it with new anchor lines (and their blank separator lines)
\* inserted before the headings that had no anchor.
C4_AssignOnlyAdds ==
    cmd = "assign" =>
        \A md \in DocSet :
            LET old == parse_doc(before[md])
                new == parse_doc(docs[md])
            IN  /\ Len(new) = Len(old)
                /\ \A n \in 1..Len(old) :
                        /\ new[n].heading = old[n].heading
                        /\ old[n].eid # None => new[n].eid = old[n].eid
                /\ IF md \in written
                   THEN OnlyAnchorsInserted(before[md], docs[md], 1, 1)
                   ELSE docs[md] = before[md]

C4_Witness ==
    /\ cmd = "assign"
    /\ total_added >= 2
    /\ \E md \in written : \E n \in 1..Len(parse_doc(before[md])) :
            parse_doc(before[md])[n].eid \in ManualIds

ErrorPlaces(kind) ==
    {<<CHOOSE k \in 1..Len(DocFiles) : DocFiles[k] = errors[n].file, errors[n].line>> :
        n \in {m \in 1..Len(errors) : errors[m].kind = kind}}

\* C5: --validate reports one error for every heading whose nearest
\* preceding non-blank line is not an anchor tag and one for every heading
\* whose identifier an earlier heading already carries, returns 1 if and
\* only if there is such an error (0 otherwise), and writes to no file.
C5_ValidateReports ==
    cmd = "validate" =>
        /\ ErrorPlaces("MISSING ID") = MissingPlaces(before)
        /\ ErrorPlaces("DUPLICATE ID") = RepeatPlaces(before)
        /\ Len(errors) = Cardinality(MissingPlaces(before)) + Cardinality(RepeatPlaces(before))
        /\ rc = (IF MissingPlaces(before) \cup RepeatPlaces(before) # {} THEN 1 ELSE 0)
        /\ written = {}
        /\ docs = before

C5_Witness ==
    /\ cmd = "validate"
    /\ rc = 1
    /\ \E n \in 1..Len(errors) : errors[n].kind = "MISSING ID"
    /\ \E n \in 1..Len(errors) : errors[n].kind = "DUPLICATE ID"

(***************************************************************************)
(* Claims about backtrace_query (checked under SpecBq).                    *)
(***************************************************************************)
\* a transient failure: HTTP 429, HTTP 5xx, a network error or a timeout
Transient(o) ==
    \/ o.kind \in {"urlerror", "timeout"}
    \/ o.kind = "http" /\ (o.code = 429 \/ (o.code >= 500 /\ o.code <= 599))

Other4xx(o) ==
    o.kind = "http" /\ o.code >= 400 /\ o.code <= 499 /\ o.code \notin {401, 403, 429}

BqEnded == bq_pc \in {"return", "exit"}

BqAttempts == Len(bq_outcomes)

C6_Safety ==
    /\ BqAttempts <= 3
    /\ \A n \in 1..(BqAttempts - 1) : Transient(bq_outcomes[n])
    /\ bq_waits = SubSeq(<<1, 3>>, 1, Len(bq_waits))
    /\ Len(bq_waits) = (IF bq_pc = "request" THEN BqAttempts ELSE BqAttempts - 1)
    /\ bq_pc = "return" => bq_outcomes[BqAttempts].kind = "ok"
    /\ (BqAttempts > 0 /\ bq_outcomes[BqAttempts].kind = "ok")
            => bq_pc \in {"parse", "return", "exit"}
    /\ (BqAttempts = 3 /\ Transient(bq_outcomes[3])) => (bq_pc = "exit" /\ bq_rc = 2)

\* C6: backtrace_query retries only after a transient failure, makes at
\* most 3 attempts, waits 1 second before the second and 3 seconds before
\* the third, makes no attempt after a successful one, exits with status 2
\* after a third transient failure, and always ends in a return or an exit.
C6_RetryPolicy == []C6_Safety /\ <>BqEnded

C6_Witness ==
    /\ bq_pc = "return"
    /\ BqAttempts = 3
    /\ bq_waits = <<1, 3>>

\* C7 as stated: an HTTP 4xx response other than 401, 403 and 429 is fatal
\* only after the retry budget: the request is retried until the 2 retries
\* are used up and only then does the process exit with a non-zero status.
C7_Other4xxAfterRetries ==
    \A n \in 1..BqAttempts :
        Other4xx(bq_outcomes[n]) =>
            \/ n < BqAttempts
            \/ bq_pc = "backoff"
            \/ (n = 1 + MAX_RETRIES /\ bq_pc = "exit" /\ bq_rc # 0)

\* C7 as amended: an HTTP 4xx response other than 401, 403 and 429 is fatal
\* at once, on whichever attempt it arrives: no further attempt and no
\* backoff wait follows it and the process exits with status 2.
C7_Other4xxFatalAtOnce ==
    \A n \in 1..BqAttempts :
        Other4xx(bq_outcomes[n]) =>
            /\ n = BqAttempts
            /\ bq_pc = "exit"
            /\ bq_rc = 2
            /\ Len(bq_waits) = n - 1

C7_Witness ==
    /\ BqAttempts = 2
    /\ Other4xx(bq_outcomes[2])
    /\ bq_pc = "exit"

\* C8: an HTTP 401 or 403 response on any attempt ends the process at once
\* with exit status 1: no further attempt and no backoff wait follows it.
C8_AuthFatalAtOnce ==
    \A n \in 1..BqAttempts :
        (bq_outcomes[n].kind = "http" /\ bq_outcomes[n].code \in {401, 403}) =>
            /\ n = BqAttempts
            /\ bq_pc = "exit"
            /\ bq_rc = 1
            /\ Len(bq_waits) = n - 1

C8_Witness ==
    /\ BqAttempts = 3
    /\ bq_outcomes[3] = [kind |-> "http", code |-> 403]
    /\ bq_pc = "exit"

(***************************************************************************)
(* Claims about prpc_request (checked under SpecFc).                       *)
(***************************************************************************)
FcLast == fc_outcomes[Len(fc_outcomes)]

FcTransient(o) ==
    \/ o.kind \in {"urlerror", "timeout"}
    \/ o.kind = "http" /\ (o.code = 429 \/ (o.code >= 500 /\ o.code <= 599))

\* C9 as stated: in the flake checker an HTTP 429 or 5xx response, a network
\* error or a timeout is retried with a bounded backoff, and the run ends
\* with a non-zero exit status only after the retries are used up.
C9_TransientRetried ==
    (fc_outcomes # <<>> /\ FcTransient(FcLast)) =>
        (fc_pc = "exit" => (fc_attempts > 1 /\ fc_rc # 0))

\* C9 as amended: in the flake checker an HTTP 429 or 5xx response, a
\* network error or a timeout is not retried: the first such failure of a
\* request ends the run at once with exit status 1.
C9_TransientFatalAtOnce ==
    \A n \in 1..Len(fc_outcomes) :
        FcTransient(fc_outcomes[n]) =>
            /\ n = Len(fc_outcomes)
            /\ fc_pc = "exit"
            /\ fc_rc = 1
            /\ fc_attempts = 1

C9_Witness ==
    /\ Len(fc_outcomes) = 2
    /\ FcLast = [kind |-> "http", code |-> 503, raw |-> <<>>]
    /\ fc_pc = "exit"

(***************************************************************************)
(* Claims about compare_windows (checked under SpecCw).                    *)
(***************************************************************************)
\* NEW groups, then RISING groups, then the remaining groups
OrderClass(c) ==
    IF c.regression_badge = "NEW" THEN 0
    ELSE IF c.regression_badge = "RISING" THEN 1 ELSE 2

FactorAtLeast(x, y) == x.inf \/ (~y.inf /\ x.tenths >= y.tenths)

\* C10: the list compare_windows returns has all NEW groups first, then
\* the RISING groups in descending order of their change factor, then the
\* remaining groups by count; the rank field is 1..n in that order.
C10_SortOrder ==
    cw_pc = "done" =>
        /\ \A i, j \in 1..Len(annotated) :
              i < j =>
                /\ OrderClass(annotated[i]) <= OrderClass(annotated[j])
                /\ (OrderClass(annotated[i]) = 1 /\ OrderClass(annotated[j]) = 1)
                      => FactorAtLeast(annotated[i].change_factor, annotated[j].change_factor)
                /\ (OrderClass(annotated[i]) = 2 /\ OrderClass(annotated[j]) = 2)
                      => annotated[i].count >= annotated[j].count
        /\ \A i \in 1..Len(annotated) : annotated[i].rank = i

\* the baseline groups of a fingerprint (at most one: the service groups by it)
BaselineOf(fp) == {baseline[k] : k \in {k \in 1..Len(baseline) : baseline[k].fingerprint = fp}}

\* count / base > 2 and count / base < 0.5, cross-multiplied; a baseline
\* count of 0 under a positive count is a quotient above every number
RatioAboveTwo(count, base) == count > 2 * base

RatioBelowHalf(count, base) == 2 * count < base

BadgedRight(a) ==
    /\ a.regression_badge \in {"NEW", "RISING", "FALLING", "STABLE"}
    /\ a.regression_badge = "NEW" <=> BaselineOf(a.fingerprint) = {}
    /\ a.regression_badge = "NEW" => a.baseline_count = 0
    /\ \A b \in BaselineOf(a.fingerprint) :
          /\ a.baseline_count = b.count
          /\ a.regression_badge = "RISING" <=> RatioAboveTwo(a.count, b.count)
          /\ a.regression_badge = "FALLING" <=> RatioBelowHalf(a.count, b.count)
          /\ a.regression_badge = "STABLE" <=>
                (~RatioAboveTwo(a.count, b.count) /\ ~RatioBelowHalf(a.count, b.count))
          /\ (a.count = 20 /\ b.count = 5) =>
                /\ a.regression_badge = "RISING"
                /\ a.change_factor = [inf |-> FALSE, tenths |-> 40]

\* C11: compare_windows returns exactly the groups of the recent window,
\* each once, and badges each of them NEW if and only if its fingerprint is
\* absent from the baseline, otherwise RISING if and only if recent count /
\* baseline count is greater than 2, FALLING if and only if it is less than
\* 0.5 and STABLE otherwise (exactly 2 and exactly 0.5 are STABLE); recent 20
\* over baseline 5 is RISING with change_factor 4.0 and baseline_count 5, and
\* a NEW group has baseline_count 0.
C11_Badges ==
    cw_pc = "done" =>
        /\ Len(annotated) = Len(recent)
        /\ \A i \in 1..Len(recent) :
              Cardinality({j \in 1..Len(annotated) :
                              /\ annotated[j].fingerprint = recent[i].fingerprint
                              /\ annotated[j].count = recent[i].count}) = 1
        /\ \A j \in 1..Len(annotated) : BadgedRight(annotated[j])

\* 20 over 5 and exactly twice the baseline count meet in one call
C11_Witness ==
    /\ cw_pc = "done"
    /\ \E i, j \in 1..Len(annotated) :
          /\ annotated[i].count = 20
          /\ annotated[i].baseline_count = 5
          /\ annotated[i].regression_badge = "RISING"
          /\ annotated[j].count = 2
          /\ annotated[j].baseline_count = 1
          /\ annotated[j].regression_badge = "STABLE"

(***************************************************************************)
(* Claims about classify_crash_type (checked under SpecCt).                *)
(***************************************************************************)
\* C16: classify_crash_type returns "dump" if and only if the classifier is
\* exactly the string "dump"; for every other classifier, a missing or empty
\* one and one that differs from "dump" only in letter case included, it
\* returns "crash".
C16_DumpIffExact ==
    ct_pc = "done" =>
        /\ crash_type \in {"dump", "crash"}
        /\ crash_type = "dump" <=> classifier = <<"d", "u", "m", "p">>

\* C16, amended: classify_crash_type returns "dump" if and only if the
\* classifier, with its letters taken to lower case, is "dump", and "crash"
\* for every other classifier, a missing or empty one included.
C16_DumpIffLowerIsDump ==
    ct_pc = "done" =>
        /\ crash_type \in {"dump", "crash"}
        /\ crash_type = "dump" <=>
              /\ Len(classifier) = 4
              /\ \A i \in 1..4 : classifier[i] \in {<<"d", "u", "m", "p">>[i],
                                                     <<"D", "U", "M", "P">>[i]}

\* "Dump" has been classified
C16_Witness ==
    /\ ct_pc = "done"
    /\ classifier = <<"D", "u", "m", "p">>
    /\ crash_type = "dump"

(***************************************************************************)
(* Claims about classify_code_origin (checked under SpecCo).               *)
(***************************************************************************)
\* the frames the classification may look at: the first min(3, n)
FirstFrames == {frames[i] : i \in 1..Min2(3, Len(frames))}

BothQueriesBuilt == args.compare # 0 /\ Len(tc_queries) = 2

\* C12: in regression mode (--compare N) the baseline query ends at the
\* timestamp where the recent query starts and the two windows have the
\* same length, for every accepted combination of --compare, --days and
\* --since.
C12_AdjacentEqualWindows ==
    BothQueriesBuilt =>
        /\ tc_queries[2].at_most = tc_queries[1].at_least
        /\ tc_queries[2].at_most - tc_queries[2].at_least
              = tc_queries[1].at_most - tc_queries[1].at_least

\* the crash reporter has ended: in main, or inside backtrace_query
TcTerminated == tc_pc = "exit" \/ (tc_pc \in {"recent", "baseline"} /\ bq_pc = "exit")

TcExitStatus == IF tc_pc = "exit" THEN tc_rc ELSE bq_rc

\* the command line and the environment main has read are not acceptable
InvalidArguments(a) ==
    \/ ~a.api_key /\ ~a.dry_run
    \/ ~a.project
    \/ a.limit \notin 1..500
    \/ a.min_count < 0
    \/ a.frames < 1
    \/ a.since # None /\ ~Strptime(a.since).ok

\* backtrace_query ended the run on its last urlopen() outcome
QueryEnded == tc_pc \in {"recent", "baseline"} /\ bq_pc = "exit"

AuthenticationError ==
    /\ QueryEnded
    /\ bq_outcomes[Len(bq_outcomes)].kind = "http"
    /\ bq_outcomes[Len(bq_outcomes)].code \in {401, 403}

\* another HTTP error, a network error, a timeout or a body that is no JSON
QueryError == QueryEnded /\ ~AuthenticationError

\* main went through parsing and the filters
Filtered == tc_pc = "exit" /\ ~InvalidArguments(args) /\ ~args.dry_run

NoCrashRequest == tc_net = {} /\ tc_calls = 0 /\ bq_outcomes = <<>>

\* C14: a configuration error or malformed input (missing API key outside
\* a dry run, missing project, --limit outside 1..500, negative
\* --min-count, --frames below 1, --since not a YYYY-MM-DD date, flake
\* checker --days outside 1..90) ends the run with a non-zero status before
\* any network request; a dry run of the crash reporter sends no request.
C14_ValidatedBeforeNetwork ==
    /\ (tc_pc \notin {"off", "start"} /\ InvalidArguments(args))
          => tc_pc = "exit" /\ tc_rc # 0 /\ NoCrashRequest
    /\ args.dry_run => NoCrashRequest
    /\ (fc_pc \notin {"off", "start"} /\ fc_days \notin 1..90)
          => fc_pc = "exit" /\ fc_rc # 0 /\ fc_requests = <<>>

\* the flake checker refused --days 91
C14_Witness == fc_pc = "exit" /\ fc_days = 91 /\ fc_requests = <<>>

\* what main prints about an exception or an input the function skipped
Warnings(function) ==
    IF function = "fetch_channel_versions"
    THEN {"Could not fetch wiki channel versions"}
    ELSE {}

\* C15: no error is silently swallowed: wherever a function catches an
\* exception or skips unusable input (here the failed release-schedule
\* fetch of fetch_channel_versions and the malformed entries of
\* parse_response), the run prints a warning and goes on, or ends with a
\* non-zero status and a message on standard error.
C15_NothingSwallowed ==
    \A function \in tc_caught :
        \/ Warnings(function) \cap tc_stderr # {}
        \/ TcTerminated /\ TcExitStatus # 0 /\ tc_stderr # {}

(***************************************************************************)
(* top-crashers.py: the formatters. The value a reader takes from the text *)
(* an output holds for a field.                                            *)
(***************************************************************************)
NumberFields == {"rank", "count", "baseline_count"}

TenthsFields == {"crashes_per_day", "change_factor"}

FlagFields == {"affects_nightly", "is_new"}

\* the fields C18 names
SharedFields ==
    NumberFields \cup TenthsFields \cup FlagFields
        \cup {"fingerprint", "classifier", "crash_type", "code_origin", "top_platform",
              "top_version", "top_channel", "regression_badge"}

DigitsOf(text) == DigitsValue(SelectSeq(text, IsDigit), 0)

\* a float with one decimal, with or without a unit behind it, or infinity
TenthsOf(text) ==
    IF text \in {<<"i", "n", "f">>, <<"I", "n", "f", "i", "n", "i", "t", "y">>} THEN Infinity
    ELSE [inf |-> FALSE, tenths |-> DigitsOf(text)]

FlagOf(text) == text \in {<<"t", "r", "u", "e">>, <<"T", "r", "u", "e">>, <<"Y", "e", "s">>, <<"N", "E", "W">>}

\* "N.A.B.C" of the display form "Brave A.B.C (Cr N)"
VersionOf(text) ==
    IF StartsWith(text, <<"B", "r", "a", "v", "e", " ">>)
    THEN LET words == SplitChar(text, " ", <<>>)
         IN  SubSeq(words[4], 1, Len(words[4]) - 1) \o <<".">> \o words[2]
    ELSE text

\* a JSON string without its quotes; null is None
UnquotedJson(text) ==
    IF text = <<"n", "u", "l", "l">> THEN None ELSE SubSeq(text, 2, Len(text) - 1)

ValueOf(kind, field, text) ==
    IF field \in NumberFields THEN <<DigitsOf(text)>>
    ELSE IF field \in TenthsFields THEN <<TenthsOf(text)>>
    ELSE IF field \in FlagFields THEN <<FlagOf(text)>>
    ELSE IF kind \in {"json", "ndjson"} THEN UnquotedJson(text)
    ELSE IF kind = "markdown" /\ field = "crash_type" THEN Lower(text)
    ELSE IF kind = "markdown" /\ field = "top_version" THEN VersionOf(text)
    ELSE text

\* two outputs, both written, hold the same groups in the same order and
\* the same value for every field both show of a group
Agree(kind_a, a, kind_b, b) ==
    (a # None /\ b # None) =>
        /\ Len(a) = Len(b)
        /\ \A n \in 1..Len(a) :
              \A field \in (DOMAIN a[n]) \cap (DOMAIN b[n]) \cap SharedFields :
                 ValueOf(kind_a, field, a[n][field]) = ValueOf(kind_b, field, b[n][field])

\* C18: for one crash group, every field that appears in more than one of
\* the four outputs carries the same value in each of them, in normal mode
\* and in compare mode (rank, fingerprint, count, crashes_per_day,
\* classifier, crash_type, code_origin, top_platform, top_version,
\* top_channel, affects_nightly, is_new, and in compare mode
\* regression_badge, change_factor and baseline_count), and the groups
\* appear in the same order in all four.
C18_FormatsAgree ==
    /\ Agree("markdown", out_markdown, "json", out_json)
    /\ Agree("markdown", out_markdown, "ndjson", out_ndjson)
    /\ Agree("markdown", out_markdown, "csv", out_csv)
    /\ Agree("json", out_json, "ndjson", out_ndjson)
    /\ Agree("json", out_json, "csv", out_csv)
    /\ Agree("ndjson", out_ndjson, "csv", out_csv)

\* all four outputs of a compare-mode report of two groups, the first of
\* them with an infinite change factor
C18_Witness ==
    /\ compare_mode
    /\ Len(fmt_crashers) = 2
    /\ fmt_crashers[1].change_factor.inf
    /\ out_markdown # None /\ out_json # None /\ out_ndjson # None /\ out_csv # None

(***************************************************************************)
(* check-upstream-flake.py: the flake rate and the verdict.                *)
(***************************************************************************)
Analyzed == fa_source # ""

\* passed + flaky + failed of the analysis
Meaningful == analysis.passed + analysis.flaky + analysis.failed

\* the flake rate is at least (below) so many percent, on the counts
AtLeastPercent(percent) == 100 * (analysis.flaky + analysis.failed) >= percent * Meaningful

\* C19: the flake rate is (flaky + failed) / (passed + flaky + failed), 0
\* when the denominator is 0, and the verdict is insufficient_data when
\* passed + flaky + failed < 10, otherwise known_upstream_flake at a rate
\* of at least 5%, occasional_upstream_failures at a rate of at least 1%
\* and below 5%, stable_upstream below 1%; skipped, precluded and
\* execution-errored verdicts do not enter the rate.
C19_RateAndVerdict ==
    Analyzed =>
        /\ IF Meaningful = 0 THEN analysis.flake_rate.num = 0
           ELSE analysis.flake_rate.num * Meaningful
                    = (analysis.flaky + analysis.failed) * analysis.flake_rate.den
        /\ analysis.verdict =
              (IF Meaningful < 10 THEN "insufficient_data"
               ELSE IF AtLeastPercent(5) THEN "known_upstream_flake"
               ELSE IF AtLeastPercent(1) THEN "occasional_upstream_failures"
               ELSE "stable_upstream")

\* a rate of exactly 5% over groups that hold skipped verdicts too
C19_Witness ==
    /\ fa_source = "stats"
    /\ analysis.skipped > 0
    /\ Meaningful >= 10
    /\ 100 * (analysis.flaky + analysis.failed) = 5 * Meaningful
    /\ analysis.verdict = "known_upstream_flake"

\* C20: with fewer than 10 meaningful verdicts (passed + failed + flaky
\* < 10) the verdict is insufficient_data whatever the flake rate is, also
\* when every meaningful verdict is a failure, in analyze_stats, in
\* analyze_verdicts and in the no-data branch of main.
C20_InsufficientData ==
    (Analyzed /\ Meaningful < 10) => analysis.verdict = "insufficient_data"

\* nine verdicts, all of them failures, analysed by analyze_verdicts
C20_Witness ==
    /\ fa_source = "verdicts"
    /\ analysis.failed = 9
    /\ Meaningful = 9
    /\ analysis.verdict = "insufficient_data"

(***************************************************************************)
(* check-upstream-flake.py: the overall verdict.                           *)
(***************************************************************************)
SomeTest(v) == \E n \in 1..Len(test_results) : test_results[n].verdict = v

\* C21: the overall verdict of a run with at least one matched test is the
\* worst verdict among the matched tests: known_upstream_flake if any test
\* has it, else occasional_upstream_failures if any test has it, and
\* stable_upstream only if every matched test is stable_upstream; with no
\* matched test it is not_found.
C21_WorstVerdict ==
    overall_verdict # "" =>
        /\ test_results = <<>> <=> overall_verdict = "not_found"
        /\ test_results # <<>> => SomeTest(overall_verdict)
        /\ SomeTest("known_upstream_flake") => overall_verdict = "known_upstream_flake"
        /\ (SomeTest("occasional_upstream_failures") /\ ~SomeTest("known_upstream_flake"))
              => overall_verdict = "occasional_upstream_failures"
        /\ overall_verdict = "stable_upstream"
              => \A n \in 1..Len(test_results) : test_results[n].verdict = "stable_upstream"

\* a stable test ahead of a test without enough data: the report says
\* insufficient_data
C21_Witness ==
    /\ Len(test_results) = 2
    /\ test_results[1].verdict = "stable_upstream"
    /\ test_results[2].verdict = "insufficient_data"
    /\ overall_verdict = "insufficient_data"

(***************************************************************************)
(* check-upstream-flake.py: the tests that are analysed.                   *)
(***************************************************************************)
\* 0: ends in "/" + test name; 1: only ends in the test name; 2: merely
\* contains it
Specificity(tid) ==
    IF Len(tid) > Len(TestName) /\ EndsWith(tid, TestName)
          /\ tid[Len(tid) - Len(TestName)] = "/" THEN 0
    ELSE IF EndsWith(tid, TestName) THEN 1
    ELSE 2

\* x is to be analysed before y
Before(x, y) ==
    \/ Specificity(x) < Specificity(y)
    \/ Specificity(x) = Specificity(y) /\ StrLess(x, y)

\* C22: at most 5 matched identifiers are analysed, chosen by suffix-match
\* specificity: ending in "/" + test name before only ending in the test
\* name before merely containing it; no identifier of a lower specificity
\* class is analysed while one of a higher class is left out, and ties
\* inside a class are broken by the identifier's lexicographic order.
C22_TopFiveBySpecificity ==
    rk_done =>
        /\ Len(test_ids) = Min2(5, Len(found_ids))
        /\ Range(test_ids) \subseteq Range(found_ids)
        /\ \A i, j \in 1..Len(test_ids) : i < j => Before(test_ids[i], test_ids[j])
        /\ \A x \in Range(test_ids), y \in Range(found_ids) \ Range(test_ids) : Before(x, y)

\* six identifiers found, of all three classes, one left out
C22_Witness ==
    /\ rk_done
    /\ Len(found_ids) = 6
    /\ Len(test_ids) = 5
    /\ \E x \in Range(found_ids) : Specificity(x) = 0
    /\ \E y \in Range(found_ids) \ Range(test_ids) : Specificity(y) = 2

(***************************************************************************)
(* The exit status of the flake checker                                    *)
(***************************************************************************)
FcTerminated == fc_pc = "exit"

\* the search returned no matching test identifier and the not-found report
\* was printed
NotFound == fn_printed = "not_found" /\ all_test_ids = <<>>

\* --days outside 1..90, or a request that prpc_request ends the run on
HardError ==
    \/ fn_printed = "" /\ fc_requests = <<>> /\ ~DaysInRange(fc_days)
    \/ fc_outcomes # <<>> /\ prpc_request(fc_outcomes[Len(fc_outcomes)]).exit

\* C23: the flake checker exits with status 2 if and only if the search
\* returned no matching test identifier (after the not-found report), with
\* status 1 on every hard error and with status 0 otherwise
C23_ExitStatusOfFlakeChecker ==
    FcTerminated =>
        /\ (fc_rc = 2) <=> NotFound
        /\ HardError => fc_rc = 1
        /\ (~NotFound /\ ~HardError) => fc_rc = 0

(***************************************************************************)
(* The pagination loops of the flake checker                               *)
(***************************************************************************)
InLoop == fc_pc \in {"search", "stats", "verdicts"}

LoopDone == fc_pc \in {"searched", "stats_done", "verdicts_done"}

\* the decoded response to the i-th request of the loop
PageOf(i) == JsonLoads(StripXssi(fc_outcomes[i].raw)).doc

\* the items of that page
ItemsOf(i) ==
    IF fc_pc \in {"search", "searched"} THEN PageOf(i).testIds
    ELSE IF fc_pc \in {"stats", "stats_done"} THEN PageOf(i).groups
    ELSE PageOf(i).verdicts

\* what the loop has collected, and returns when it is done
Collected ==
    IF fc_pc \in {"search", "searched"} THEN all_test_ids
    ELSE IF fc_pc \in {"stats", "stats_done"} THEN all_groups
    ELSE all_verdicts

RECURSIVE PagesUpTo(_)
PagesUpTo(n) == IF n = 0 THEN <<>> ELSE PagesUpTo(n - 1) \o ItemsOf(n)

PagedInOrder ==
    (InLoop \/ LoopDone) =>
        /\ \A i \in 1..Len(fc_requests) :
              fc_requests[i] = IF i = 1 THEN "" ELSE PageOf(i - 1).nextPageToken
        /\ \A i \in 1..Len(fc_outcomes) :
              (PageOf(i).nextPageToken = "") <=> (LoopDone /\ i = Len(fc_outcomes))
        /\ Collected = PagesUpTo(Len(fc_outcomes))

\* C24: each of the three pagination loops sends with every request after
\* the first the continuation token of the response before it, goes on as
\* long as the responses carry a token and stops at the first one without,
\* returns the items of all pages concatenated in page order, and
\* terminates when the service eventually omits the token
C24_Pagination == []PagedInOrder /\ (InLoop ~> ~InLoop)

C24_Witness ==
    /\ fc_pc = "verdicts_done"
    /\ Len(fc_requests) = MaxPages
    /\ Len(all_verdicts) > Len(PageOf(1).verdicts)
    /\ PageOf(1).verdicts # <<>>

(***************************************************************************)
(* The records of parse_response                                           *)
(***************************************************************************)
\* the entries a record is due for, in response order
Qualifying == SelectSeq(pr_values, LAMBDA e : e.shape = "group" /\ e.count >= pr_min_count)

\* the platforms of the pairs, and the count a platform decodes to: that of
\* its last pair
PlatformsOf(pairs) == {pairs[i].value : i \in {j \in 1..Len(pairs) : pairs[j].pair}}

DecodedCount(pairs, platform) ==
    LET last == CHOOSE i \in 1..Len(pairs) :
                    /\ pairs[i].pair /\ pairs[i].value = platform
                    /\ \A j \in (i + 1)..Len(pairs) :
                          ~(pairs[j].pair /\ pairs[j].value = platform)
    IN  pairs[last].count

Highest(pairs, top) ==
    /\ top # None
    /\ top[1] \in PlatformsOf(pairs)
    /\ \A p \in PlatformsOf(pairs) : DecodedCount(pairs, top[1]) >= DecodedCount(pairs, p)

AllZero(pairs) == \A p \in PlatformsOf(pairs) : DecodedCount(pairs, p) = 0

OneRecordEach(none_when_zero) ==
    pr_done =>
        /\ Len(pr_crashers) = Len(Qualifying)
        /\ \A n \in 1..Len(Qualifying) :
              LET e == Qualifying[n]
                  c == pr_crashers[n]
              IN  /\ c.fingerprint = e.fingerprint
                  /\ c.count = e.count
                  /\ c.crash_type = IF Lower(e.classifier) = <<"d", "u", "m", "p">>
                                    THEN "dump" ELSE "crash"
                  /\ IF PlatformsOf(e.platform_pairs) = {}
                        \/ (none_when_zero /\ AllZero(e.platform_pairs))
                     THEN c.top_platform = None
                     ELSE Highest(e.platform_pairs, c.top_platform)

\* C25 as stated: one record, in response order, for every well-formed
\* entry with count >= min_count and none for any other; its count is the
\* entry's, its crash_type follows the classifier, and its top_platform is a
\* platform of the highest decoded count, None when there is no platform
C25_OneRecordPerEntry == OneRecordEach(FALSE)

\* C25, amended: top_platform is None also when the decoded counts sum to 0
C25_OneRecordPerEntryNoneWhenZero == OneRecordEach(TRUE)

C25_Witness ==
    /\ pr_done
    /\ Len(pr_crashers) = 2
    /\ Len(pr_values) = 3
    /\ pr_crashers[1].top_platform = <<"Linux">>
    /\ pr_crashers[2].fingerprint = "f1"

(***************************************************************************)
(* The channel breakdown                                                   *)
(***************************************************************************)
\* C26: for every version histogram and every channel-version map that
\* fetch_channel_versions can return, whatever the column names of the
\* table, build_channel_breakdown ends without an error and returns the keys
\* nightly, beta, release and older with counts that sum to the histogram's
C26_BreakdownTotal ==
    cb_done =>
        /\ cb_result.raised = ""
        /\ DOMAIN cb_result.breakdown = {"nightly", "beta", "release", "older"}
        /\ cb_result.breakdown.nightly + cb_result.breakdown.beta
             + cb_result.breakdown.release + cb_result.breakdown.older
           = SumValues(version_hist)

(***************************************************************************)
(* The order, the filters and the ranks of the crash report                *)
(***************************************************************************)
FingerprintsOf(list) == [n \in 1..Len(list) |-> list[n].fingerprint]

\* the value --order sorts on
OrderValue(c, order) ==
    IF order = "count" THEN c.count
    ELSE IF order = "rate" THEN c.crashes_per_day
    ELSE IF c.last_seen_ts = None THEN 0 ELSE c.last_seen_ts[1]

\* C27: in compare mode --order and --new-only have no effect: the groups
\* are ordered by compare_windows only and groups that are not new are
\* kept; without --compare the groups are sorted by the selected order,
\* descending, and --new-only keeps only the groups with is_new
C27_OrderAndNewOnly ==
    fin_done =>
        IF fin_args.compare # 0
        THEN FingerprintsOf(fin_sorted)
               = FingerprintsOf(Compared(fin_recent, fin_baseline, fin_args.limit))
        ELSE /\ \A i, j \in 1..Len(fin_sorted) :
                   i < j => OrderValue(fin_sorted[i], fin_args.order)
                              >= OrderValue(fin_sorted[j], fin_args.order)
             /\ {fin_sorted[n].fingerprint : n \in 1..Len(fin_sorted)}
                  = {fin_recent[n].fingerprint :
                        n \in {k \in 1..Len(fin_recent) :
                                  fin_args.new_only => fin_recent[k].is_new}}
             /\ Len(fin_sorted) <= Len(fin_recent)

C27_Witness ==
    /\ fin_done
    /\ fin_args.compare # 0
    /\ fin_args.new_only
    /\ fin_args.order = "last-seen"
    /\ Len(fin_out) = 2
    /\ ~fin_out[1].is_new
    /\ OrderValue(fin_out[1], "last-seen") < OrderValue(fin_out[2], "last-seen")

\* C28: in every report, for every mode and every combination of the
\* post-query filters, the ranks of the printed groups are 1, 2, ..., n in
\* output order, and in compare mode at most --limit groups are printed
C28_RanksAreContiguous ==
    fin_done =>
        /\ \A n \in 1..Len(fin_out) : fin_out[n].rank = n
        /\ fin_args.compare # 0 => Len(fin_out) <= fin_args.limit

C28_Witness ==
    /\ fin_done
    /\ fin_args.compare = 0
    /\ fin_args.crashes_only
    /\ Len(fin_sorted) = 3
    /\ Len(fin_out) = 2
    /\ fin_out[1].fingerprint # fin_sorted[1].fingerprint

(***************************************************************************)
(* The two analyses of the flake checker                                   *)
(***************************************************************************)
ComparedFields ==
    {"passed", "failed", "flaky", "skipped", "meaningful_verdicts", "flake_rate", "verdict",
     "recommendation"}

\* C29: analyze_verdicts on the individual verdicts and analyze_stats on any
\* grouping of the same counts return the same passed, failed, flaky,
\* skipped, meaningful_verdicts, flake_rate, verdict and recommendation
C29_SameAnalysis ==
    (by_stats # None /\ by_verdicts # None) =>
        \A field \in ComparedFields : by_stats[1][field] = by_verdicts[1][field]

C29_Witness ==
    /\ by_stats # None
    /\ by_verdicts # None
    /\ Len(eq_groups) = 2
    /\ CountOf(eq_groups[1], "skipped") = 1
    /\ by_verdicts[1].verdict = "occasional_upstream_failures"
    /\ by_verdicts[1].skipped = 2

(***************************************************************************)
(* The length of a sanitized frame                                         *)
(***************************************************************************)
\* C30: every frame string that sanitize_frame returns has a length of at
\* most MAX_FRAME_LENGTH characters, for string and non-string input alike
C30_FrameLength == sf_done => Len(sf_out) <= MAX_FRAME_LENGTH

====
